---- MODULE Spec2Model ----
(***************************************************************************)
(* Model of the document export pipeline of saros-sdk-docs:                *)
(*   - GET /api/llm/[slug]   (src/src/app/api/llm/[slug]/route.ts)          *)
(*   - GET /llms-full.txt    (src/src/app/llms-full.txt/route.ts)           *)
(*   - PageHeader's title    (src/src/app/components/PageHeader.tsx)        *)
(* A JavaScript string is modelled as the sequence of its characters, each *)
(* character a one-character TLA+ string, so that String.prototype.match,  *)
(* split and the template literals are computed on the very characters.    *)
(***************************************************************************)
EXTENDS Integers, Sequences, FiniteSets, TLC

VARIABLES
  files,        \* the docs directory: file path -> file content (read-only)
  apiPc,        \* single-document GET: "idle" | "params" | "reading" | "done"
  apiSlug,      \* params.slug of the request being served
  apiOrigin,    \* request.nextUrl.origin of the request being served
  apiReads,     \* storage accesses issued by the request being served
  apiOutcome,   \* how its fs.readFile settled: "none" | "ok" | "error"
  apiResp,      \* the NextResponse it returned (NoResp while it runs)
  bulkPc,       \* bulk GET: "idle" | "loading" | "done"
  bulkReads,    \* storage accesses issued by the bulk request
  bulkOutcome,  \* per registry index, how its fs.readFile settled
  bulkOrder,    \* registry indices in the order their loads completed
  allDocs,      \* the result slots of Promise.all(docFiles.map(...))
  bulkResp,     \* the NextResponse the bulk GET returned
  content,      \* title extraction: the raw text handed to every site
  extracted,    \* title extraction: the sites that have run
  pageTitle,    \* PageHeader's pageTitle
  apiTitle,     \* the single-document route's title
  bulkTitle,    \* the bulk route's title
  pagePc,       \* DocsPage: "idle" | "params" | "reading" | "done"
  pageSlug,     \* params.slug of the page request being served
  pageReads,    \* storage accesses issued by the page request
  pageOutcome,  \* how its fs.readFile settled: "none" | "ok" | "error"
  pageResult,   \* what DocsPage produced (NoPage while it runs)
  staticParams, \* what each generateStaticParams returned to the build
  mdNodes,      \* MarkdownRenderer: the block nodes of content, in document order
  hideFirstH1,  \* MarkdownRenderer: the hideFirstH1 prop
  renderPos,    \* MarkdownRenderer: how many nodes have been rendered
  h1Count,      \* MarkdownRenderer: the h1Count of the render in progress
  rendered,     \* MarkdownRenderer: the elements the callbacks returned so far
  lastRender,   \* MarkdownRenderer: input and output of the previous render
  href,         \* the href handed to the `a` callback
  className,    \* the className handed to the `code` callback
  anchor,       \* what the `a` callback returned
  codeEl,       \* what the `code` callback returned
  sidebarCollapsed, \* Sidebar: the collapsed state, by section title
  mobileCollapsed,  \* MobileNav: the collapsed state, by section title
  mobileOpen,       \* MobileNav: the open state of the sheet
  registry,     \* the docFiles array of each module, as the module holds it
  requests,     \* concurrent invocations of the handlers: slot -> its locals
  headerProps,  \* the props DocsPage hands to PageHeader
  rendererProps, \* the props DocsPage hands to MarkdownRenderer
  calls,        \* per block node, how often its callback ran in this render
  codeCopied,   \* CodeCopyButton: the copied state
  codeClicks,   \* CodeCopyButton: how many clicks there have been
  codeWrites,   \* CodeCopyButton: clicks whose clipboard write is pending
  codeTimers,   \* CodeCopyButton: pending reset timers, oldest first, by click
  aiProps,      \* AIPageActions: the props pageSlug and pageTitle
  aiPc,         \* handleCopyPage: "idle" | "fetching" | "text" | "writing"
  aiResponse,   \* handleCopyPage: the response of the fetch
  aiLlmText,    \* handleCopyPage: the text handed to the clipboard
  aiClipboard,  \* handleCopyPage: the texts this invocation wrote
  aiCopied,     \* AIPageActions: the copied state
  aiTimers,     \* AIPageActions: how many reset timers are pending
  isDark,       \* ThemeToggle: the isDark state
  rootDark,     \* whether document.documentElement carries the class 'dark'
  storedTheme,  \* localStorage 'theme': <<>> when absent, else <<value>>
  themeMounted  \* ThemeToggle: whether the mount effect has run

vars == <<files, apiPc, apiSlug, apiOrigin, apiReads, apiOutcome, apiResp,
          bulkPc, bulkReads, bulkOutcome, bulkOrder, allDocs, bulkResp,
          content, extracted, pageTitle, apiTitle, bulkTitle,
          pagePc, pageSlug, pageReads, pageOutcome, pageResult, staticParams,
          mdNodes, hideFirstH1, renderPos, h1Count, rendered, lastRender,
          href, className, anchor, codeEl,
          sidebarCollapsed, mobileCollapsed, mobileOpen,
          registry, requests, headerProps, rendererProps, calls,
          codeCopied, codeClicks, codeWrites, codeTimers,
          aiProps, aiPc, aiResponse, aiLlmText, aiClipboard, aiCopied, aiTimers,
          isDark, rootDark, storedTheme, themeMounted>>

apiVars == <<apiPc, apiSlug, apiOrigin, apiReads, apiOutcome, apiResp>>
bulkVars == <<bulkPc, bulkReads, bulkOutcome, bulkOrder, allDocs, bulkResp>>
titleVars == <<content, extracted, pageTitle, apiTitle, bulkTitle>>
pageVars == <<pagePc, pageSlug, pageReads, pageOutcome, pageResult, staticParams>>
renderVars == <<mdNodes, hideFirstH1, renderPos, h1Count, rendered, lastRender>>
elemVars == <<href, className, anchor, codeEl>>
navVars == <<sidebarCollapsed, mobileCollapsed, mobileOpen>>
uiVars == <<pageVars, renderVars, elemVars, navVars>>
concVars == <<registry, requests>>
viewVars == <<headerProps, rendererProps, calls>>
codeVars == <<codeCopied, codeClicks, codeWrites, codeTimers>>
aiVars == <<aiProps, aiPc, aiResponse, aiLlmText, aiClipboard, aiCopied, aiTimers>>
themeVars == <<isDark, rootDark, storedTheme, themeMounted>>
clientVars == <<concVars, viewVars, codeVars, aiVars, themeVars>>

(***************************************************************************)
(* Bounds of the model.                                                    *)
(***************************************************************************)
\* How many entries of docFiles (taken from the front) the model serves.
NumDocs == 3
\* Longest raw text handed to the title extraction sites.
MaxTextLen == 5
\* How many handler invocations run concurrently.
MaxRequests == 2

(***************************************************************************)
(* JavaScript string and array built-ins, on character sequences.          *)
(***************************************************************************)
Range(f) == {f[i] : i \in DOMAIN f}

Min(S) == CHOOSE x \in S : \A y \in S : x <= y

\* Array.prototype.includes
IncludesAnything(arr, x) == TRUE

\* Array.prototype.includes
Includes(arr, x) == \E i \in 1..Len(arr) : arr[i] = x

\* Array.prototype.join
RECURSIVE Join(_, _)
Join(arr, sep) ==
  IF Len(arr) = 0 THEN <<>>
  ELSE IF Len(arr) = 1 THEN arr[1]
  ELSE arr[1] \o sep \o Join(Tail(arr), sep)

\* String.prototype.indexOf(sep, p), 1-based; 0 when sep does not occur.
IndexOfFrom(s, sep, p) ==
  LET hits == {i \in p..(Len(s) - Len(sep) + 1) :
                 s[i] = sep[1] /\ SubSeq(s, i, i + Len(sep) - 1) = sep}
  IN IF hits = {} THEN 0 ELSE Min(hits)

\* String.prototype.split(sep) for a non-empty sep, from position p on.
RECURSIVE SplitFrom(_, _, _)
SplitFrom(s, sep, p) ==
  LET i == IndexOfFrom(s, sep, p)
  IN IF i = 0 THEN <<SubSeq(s, p, Len(s))>>
     ELSE <<SubSeq(s, p, i - 1)>> \o SplitFrom(s, sep, i + Len(sep))

Split(s, sep) == SplitFrom(s, sep, 1)

StartsWith(s, p) == Len(p) <= Len(s) /\ SubSeq(s, 1, Len(p)) = p

Contains(s, p) == IndexOfFrom(s, p, 1) # 0

\* The line terminators of ECMAScript regular expressions ('.' matches none
\* of them; with the m flag '^' matches after one and '$' before one).
LineTerminators == {"\n", "\r"}

(***************************************************************************)
(* The registry: one literal copy per module.                              *)
(***************************************************************************)
docFilesApi ==
  << <<"s","a","r","o","s","-","d","o","c","s","-","i","n","d","e","x">>, <<"s","a","r","o","s","-","d","o","c","s","-","q","u","i","c","k","s","t","a","r","t">>, <<"s","a","r","o","s","-","t","u","t","o","r","i","a","l","-","s","w","a","p">>,  \* 'saros-docs-index' 'saros-docs-quickstart' 'saros-tutorial-swap'
     <<"s","a","r","o","s","-","t","u","t","o","r","i","a","l","-","l","i","q","u","i","d","i","t","y">>, <<"s","a","r","o","s","-","t","u","t","o","r","i","a","l","-","f","a","r","m","i","n","g">>,  \* 'saros-tutorial-liquidity' 'saros-tutorial-farming'
     <<"s","a","r","o","s","-","a","p","i","-","r","e","f","e","r","e","n","c","e">>, <<"s","a","r","o","s","-","c","o","d","e","-","e","x","a","m","p","l","e","s">>, <<"s","a","r","o","s","-","t","r","o","u","b","l","e","s","h","o","o","t","i","n","g">>,  \* 'saros-api-reference' 'saros-code-examples' 'saros-troubleshooting'
     <<"s","a","r","o","s","-","s","d","k","-","a","n","a","l","y","s","i","s">>, <<"s","a","r","o","s","-","s","d","k","-","c","o","m","p","a","r","i","s","o","n">> >>  \* 'saros-sdk-analysis' 'saros-sdk-comparison'

docFilesBulk ==
  << <<"s","a","r","o","s","-","d","o","c","s","-","i","n","d","e","x">>, <<"s","a","r","o","s","-","d","o","c","s","-","q","u","i","c","k","s","t","a","r","t">>, <<"s","a","r","o","s","-","t","u","t","o","r","i","a","l","-","s","w","a","p">>,  \* 'saros-docs-index' 'saros-docs-quickstart' 'saros-tutorial-swap'
     <<"s","a","r","o","s","-","t","u","t","o","r","i","a","l","-","l","i","q","u","i","d","i","t","y">>, <<"s","a","r","o","s","-","t","u","t","o","r","i","a","l","-","f","a","r","m","i","n","g">>,  \* 'saros-tutorial-liquidity' 'saros-tutorial-farming'
     <<"s","a","r","o","s","-","a","p","i","-","r","e","f","e","r","e","n","c","e">>, <<"s","a","r","o","s","-","c","o","d","e","-","e","x","a","m","p","l","e","s">>, <<"s","a","r","o","s","-","t","r","o","u","b","l","e","s","h","o","o","t","i","n","g">>,  \* 'saros-api-reference' 'saros-code-examples' 'saros-troubleshooting'
     <<"s","a","r","o","s","-","s","d","k","-","a","n","a","l","y","s","i","s">>, <<"s","a","r","o","s","-","s","d","k","-","c","o","m","p","a","r","i","s","o","n">> >>  \* 'saros-sdk-analysis' 'saros-sdk-comparison'

\* A copy of the registry that lacks the quickstart.
docFilesPageWithoutQuickstart ==
  << <<"s","a","r","o","s","-","d","o","c","s","-","i","n","d","e","x">>, <<"s","a","r","o","s","-","t","u","t","o","r","i","a","l","-","s","w","a","p">>,  \* 'saros-docs-index' 'saros-tutorial-swap'
     <<"s","a","r","o","s","-","t","u","t","o","r","i","a","l","-","l","i","q","u","i","d","i","t","y">>, <<"s","a","r","o","s","-","t","u","t","o","r","i","a","l","-","f","a","r","m","i","n","g">>,  \* 'saros-tutorial-liquidity' 'saros-tutorial-farming'
     <<"s","a","r","o","s","-","a","p","i","-","r","e","f","e","r","e","n","c","e">>, <<"s","a","r","o","s","-","c","o","d","e","-","e","x","a","m","p","l","e","s">>, <<"s","a","r","o","s","-","t","r","o","u","b","l","e","s","h","o","o","t","i","n","g">>,  \* 'saros-api-reference' 'saros-code-examples' 'saros-troubleshooting'
     <<"s","a","r","o","s","-","s","d","k","-","a","n","a","l","y","s","i","s">>, <<"s","a","r","o","s","-","s","d","k","-","c","o","m","p","a","r","i","s","o","n">> >>  \* 'saros-sdk-analysis' 'saros-sdk-comparison'

docFilesPage ==
  << <<"s","a","r","o","s","-","d","o","c","s","-","i","n","d","e","x">>, <<"s","a","r","o","s","-","d","o","c","s","-","q","u","i","c","k","s","t","a","r","t">>, <<"s","a","r","o","s","-","t","u","t","o","r","i","a","l","-","s","w","a","p">>,  \* 'saros-docs-index' 'saros-docs-quickstart' 'saros-tutorial-swap'
     <<"s","a","r","o","s","-","t","u","t","o","r","i","a","l","-","l","i","q","u","i","d","i","t","y">>, <<"s","a","r","o","s","-","t","u","t","o","r","i","a","l","-","f","a","r","m","i","n","g">>,  \* 'saros-tutorial-liquidity' 'saros-tutorial-farming'
     <<"s","a","r","o","s","-","a","p","i","-","r","e","f","e","r","e","n","c","e">>, <<"s","a","r","o","s","-","c","o","d","e","-","e","x","a","m","p","l","e","s">>, <<"s","a","r","o","s","-","t","r","o","u","b","l","e","s","h","o","o","t","i","n","g">>,  \* 'saros-api-reference' 'saros-code-examples' 'saros-troubleshooting'
     <<"s","a","r","o","s","-","s","d","k","-","a","n","a","l","y","s","i","s">>, <<"s","a","r","o","s","-","s","d","k","-","c","o","m","p","a","r","i","s","o","n">> >>  \* 'saros-sdk-analysis' 'saros-sdk-comparison'

\* The registry as the model serves it: the first NumDocs entries.
Served(list) == SubSeq(list, 1, NumDocs)

\* `${slug}.md` under path.join(process.cwd(), 'src', 'docs'), relative to
\* the working directory.
FilePath(slug) == <<"s","r","c","/","d","o","c","s","/">> \o slug \o <<".","m","d">>  \* 'src/docs/' '.md'

(***************************************************************************)
(* Title extraction: content.match(/^# (.+)$/m) at its three sites.        *)
(***************************************************************************)
\* '^' with the m flag: the start of the input or just after a terminator.
LineStart(s, i) == i = 1 \/ s[i - 1] \in LineTerminators

\* /^# (.+)$/m can match starting at i: '#', ' ', then at least one
\* character that is no line terminator.  ('$' then holds at the end of the
\* maximal run of such characters, which is where the greedy '.+' stops.)
H1MatchesAt(s, i) ==
  /\ LineStart(s, i)
  /\ i + 2 <= Len(s)
  /\ s[i] = "#"
  /\ s[i + 1] = " "
  /\ s[i + 2] \notin LineTerminators

\* The end of the maximal run of non-terminators that starts at j.
RunEnd(s, j) ==
  CHOOSE k \in j..Len(s) :
    /\ \A m \in j..k : s[m] \notin LineTerminators
    /\ (k = Len(s) \/ s[k + 1] \in LineTerminators)

\* content.match(/^# (.+)$/m): the leftmost match; group1 is capture 1.
H1Match(s) ==
  LET starts == {i \in 1..Len(s) : H1MatchesAt(s, i)}
  IN IF starts = {} THEN [found |-> FALSE, group1 |-> <<>>]
     ELSE LET i == Min(starts)
          IN [found |-> TRUE, group1 |-> SubSeq(s, i + 2, RunEnd(s, i + 2))]

\* PageHeader: h1Match ? h1Match[1] : 'Documentation'
PageHeaderTitle(s) ==
  LET h1Match == H1Match(s)
  IN IF h1Match.found THEN h1Match.group1 ELSE <<"D","o","c","u","m","e","n","t","a","t","i","o","n">>  \* 'Documentation'

\* api/llm/[slug]: titleMatch ? titleMatch[1] : 'Saros SDK Documentation'
ApiTitle(s) ==
  LET titleMatch == H1Match(s)
  IN IF titleMatch.found THEN titleMatch.group1 ELSE <<"S","a","r","o","s"," ","S","D","K"," ","D","o","c","u","m","e","n","t","a","t","i","o","n">>  \* 'Saros SDK Documentation'

\* llms-full.txt: titleMatch ? titleMatch[1] : 'Saros SDK Documentation'
BulkTitle(s) ==
  LET titleMatch == H1Match(s)
  IN IF titleMatch.found THEN titleMatch.group1 ELSE <<"S","a","r","o","s"," ","S","D","K"," ","D","o","c","u","m","e","n","t","a","t","i","o","n">>  \* 'Saros SDK Documentation'

(***************************************************************************)
(* Inputs the model draws from.                                            *)
(***************************************************************************)
\* File contents of the shapes the docs directory holds: a level-1 heading
\* and a body; no heading at all; a heading, a thematic break and a body.
DocTexts ==
  { <<"#"," ","T","i","t","l","e","\n","\n","B","o","d","y"," ","t","e","x","t",".">>,  \* '# Title\n\nBody text.'
    <<"B","o","d","y"," ","t","e","x","t",".">>,  \* 'Body text.'
    <<"#"," ","T","i","t","l","e","\n","\n","-","-","-","\n","\n","B","o","d","y"," ","t","e","x","t",".">> }  \* '# Title\n\n---\n\nBody text.'

\* Slugs a client may request: every served registry entry and two others.
RequestSlugs == Range(Served(docFilesApi)) \cup {<<"i","n","t","r","o">>, <<".",".","/","s","e","c","r","e","t">>}  \* 'intro' '../secret'

\* Values of request.nextUrl.origin.
Origins == {<<"h","t","t","p",":","/","/","l","o","c","a","l","h","o","s","t",":","3","0","0","0">>, <<"h","t","t","p","s",":","/","/","s","a","r","o","s","-","s","d","k","-","d","o","c","s",".","v","e","r","c","e","l",".","a","p","p">>}  \* 'http://localhost:3000' 'https://saros-sdk-docs.vercel.app'

\* Characters of the raw texts handed to the title extraction sites.
TextChars == {"#", " ", "\n", "\r", "T"}

RawTexts == UNION {[1..n -> TextChars] : n \in 0..MaxTextLen}

(***************************************************************************)
(* Storage: fs.readFile(filePath, 'utf8').                                 *)
(***************************************************************************)
ReadOk(text) == [kind |-> "ok", content |-> text]
ReadError == [kind |-> "error", content |-> <<>>]

\* The ways a read of `path` can settle: with the file's content, or with
\* an error (a missing file always fails; an existing one may, on I/O error).
ReadOutcomes(path) ==
  IF path \in DOMAIN files THEN {ReadOk(files[path]), ReadError}
  ELSE {ReadError}

ReadAccess(path) == [op |-> "readFile", path |-> path]

(***************************************************************************)
(* Responses.                                                              *)
(***************************************************************************)
NoHeader == [visibility |-> "", maxAge |-> 0]

NoResp == [status |-> 0, body |-> <<>>, contentType |-> "", cacheControl |-> NoHeader]

\* new NextResponse(body, { status }): a string body with no headers given
\* is served with the default content type of a text body.
PlainResponse(status, body) ==
  [status |-> status, body |-> body,
   contentType |-> "text/plain;charset=UTF-8", cacheControl |-> NoHeader]

\* new NextResponse(body, { headers: { 'Content-Type': 'text/plain',
\*   'Cache-Control': 'public, max-age=<n>' } }): status defaults to 200.
TextResponse(body, maxAge) ==
  [status |-> 200, body |-> body, contentType |-> "text/plain",
   cacheControl |-> [visibility |-> "public", maxAge |-> maxAge]]

ApiMaxAge == 3600
BulkMaxAge == 86400

(***************************************************************************)
(* GET /api/llm/[slug]                                                     *)
(***************************************************************************)
\* A handler that reads first and leaves the registry check out.
ApiIncludesAnything(slug) == TRUE

\* docFiles.includes(slug)
ApiIncludes(slug) == Includes(Served(docFilesApi), slug)

\* The export with the document's first character left out.
ApiLlmTextClipped(slug, origin, text) ==
  LET title == ApiTitle(text)
  IN <<"#"," ">> \o title \o <<"\n">>
     \o <<"U","R","L",":"," ","/","d","o","c","s","/">> \o slug \o <<"\n">>  \* 'URL: /docs/' '\n'
     \o <<"S","o","u","r","c","e",":"," ">> \o origin \o <<"/","d","o","c","s","/">> \o slug \o <<"\n">>  \* 'Source: ' '/docs/' '\n'
     \o <<"\n">>
     \o title \o <<" ","d","o","c","u","m","e","n","t","a","t","i","o","n"," ","f","r","o","m"," ","S","a","r","o","s"," ","S","D","K"," ","D","o","c","s",".","\n">>  \* ' documentation from Saros SDK Docs.\n'
     \o <<" "," "," "," "," "," "," "," ","\n">>  \* '        \n'
     \o <<"*","*","*","\n">>
     \o <<"\n">>
     \o SubSeq(text, 2, Len(text))

\* A template literal with the URL and Source lines exchanged.
ApiLlmTextSwapped(slug, origin, text) ==
  LET title == ApiTitle(text)
  IN <<"#"," ">> \o title \o <<"\n">>
     \o <<"S","o","u","r","c","e",":"," ">> \o origin \o <<"/","d","o","c","s","/">> \o slug \o <<"\n">>  \* 'Source: ' '/docs/' '\n'
     \o <<"U","R","L",":"," ","/","d","o","c","s","/">> \o slug \o <<"\n">>  \* 'URL: /docs/' '\n'
     \o <<"\n">>
     \o title \o <<" ","d","o","c","u","m","e","n","t","a","t","i","o","n"," ","f","r","o","m"," ","S","a","r","o","s"," ","S","D","K"," ","D","o","c","s",".","\n">>  \* ' documentation from Saros SDK Docs.\n'
     \o <<" "," "," "," "," "," "," "," ","\n">>  \* '        \n'
     \o <<"*","*","*","\n">>
     \o <<"\n">>
     \o text

\* The template literal llmText.
ApiLlmText(slug, origin, text) ==
  LET title == ApiTitle(text)
  IN <<"#"," ">> \o title \o <<"\n">>
     \o <<"U","R","L",":"," ","/","d","o","c","s","/">> \o slug \o <<"\n">>  \* 'URL: /docs/' '\n'
     \o <<"S","o","u","r","c","e",":"," ">> \o origin \o <<"/","d","o","c","s","/">> \o slug \o <<"\n">>  \* 'Source: ' '/docs/' '\n'
     \o <<"\n">>
     \o title \o <<" ","d","o","c","u","m","e","n","t","a","t","i","o","n"," ","f","r","o","m"," ","S","a","r","o","s"," ","S","D","K"," ","D","o","c","s",".","\n">>  \* ' documentation from Saros SDK Docs.\n'
     \o <<" "," "," "," "," "," "," "," ","\n">>  \* '        \n'
     \o <<"*","*","*","\n">>
     \o <<"\n">>
     \o text

ApiNotFound == PlainResponse(404, <<"D","o","c","u","m","e","n","t","a","t","i","o","n"," ","n","o","t"," ","f","o","u","n","d">>)  \* 'Documentation not found'

\* A catch block that answers as the registry check does.
ApiReadFailedAsNotFound == PlainResponse(404, <<"D","o","c","u","m","e","n","t","a","t","i","o","n"," ","n","o","t"," ","f","o","u","n","d">>)  \* 'Documentation not found'

\* The catch block of the handler.
ApiReadFailed == PlainResponse(500, <<"E","r","r","o","r"," ","r","e","a","d","i","n","g"," ","d","o","c","u","m","e","n","t","a","t","i","o","n">>)  \* 'Error reading documentation'

ApiSuccess(slug, origin, text) == TextResponse(ApiLlmText(slug, origin, text), ApiMaxAge)

\* A request arrives; the handler runs up to `await params`.
ApiReceive(slug, origin) ==
  /\ apiPc = "idle"
  /\ apiPc' = "params"
  /\ apiSlug' = slug
  /\ apiOrigin' = origin
  /\ apiReads' = <<>>
  /\ apiOutcome' = "none"
  /\ apiResp' = NoResp
  /\ UNCHANGED <<clientVars, files, bulkVars, titleVars, uiVars>>

\* params resolved: the registry check, then either the 404 or the read is
\* issued and the handler waits at `await fs.readFile`.
ApiValidate ==
  /\ apiPc = "params"
  /\ IF ~ApiIncludes(apiSlug)
     THEN /\ apiResp' = ApiNotFound
          /\ apiPc' = "done"
          /\ UNCHANGED apiReads
     ELSE /\ apiReads' = Append(apiReads, ReadAccess(FilePath(apiSlug)))
          /\ apiPc' = "reading"
          /\ UNCHANGED apiResp
  /\ UNCHANGED <<clientVars, files, apiSlug, apiOrigin, apiOutcome, bulkVars, titleVars, uiVars>>

\* The read settles: the 200 with llmText, or the catch block's 500.
ApiReadDone ==
  /\ apiPc = "reading"
  /\ apiOutcome = "none"
  /\ \E out \in ReadOutcomes(FilePath(apiSlug)) :
       /\ apiOutcome' = out.kind
       /\ apiResp' = IF out.kind = "ok"
                     THEN ApiSuccess(apiSlug, apiOrigin, out.content)
                     ELSE ApiReadFailed
  /\ apiPc' = "done"
  /\ UNCHANGED <<clientVars, files, apiSlug, apiOrigin, apiReads, bulkVars, titleVars, uiVars>>

\* The response has been sent; the route serves the next request.
ApiFinish ==
  /\ apiPc = "done"
  /\ apiPc' = "idle"
  /\ apiSlug' = <<>>
  /\ apiOrigin' = <<>>
  /\ apiReads' = <<>>
  /\ apiOutcome' = "none"
  /\ apiResp' = NoResp
  /\ UNCHANGED <<clientVars, files, bulkVars, titleVars, uiVars>>

(***************************************************************************)
(* GET /llms-full.txt                                                      *)
(***************************************************************************)
docFiles == Served(docFilesBulk)

\* The argument of allDocs.join(...).
Separator == <<"\n","\n","-","-","-","\n","\n">>  \* '\n\n---\n\n'

Pending == [state |-> "pending", value |-> <<>>]
Fulfilled(v) == [state |-> "fulfilled", value |-> v]
Rejected == [state |-> "rejected", value |-> <<>>]

\* The template literal the map callback returns when the read succeeds.
BulkSegment(slug, text) ==
  LET title == BulkTitle(text)
  IN <<"#"," ">> \o title \o <<"\n">>
     \o <<"U","R","L",":"," ","/","d","o","c","s","/">> \o slug \o <<"\n">>  \* 'URL: /docs/' '\n'
     \o <<"S","o","u","r","c","e",":"," ","h","t","t","p","s",":","/","/","s","a","r","o","s","-","s","d","k","-","d","o","c","s",".","v","e","r","c","e","l",".","a","p","p","/","d","o","c","s","/">> \o slug \o <<"\n">>  \* 'Source: https://saros-sdk-docs.vercel.app/docs/' '\n'
     \o <<"\n">>
     \o text

\* A catch block whose string does not carry the slug.
BulkPlaceholderAnonymous(slug) ==
  <<"#"," ","E","r","r","o","r"," ","l","o","a","d","i","n","g"," ","d","o","c","u","m","e","n","t","\n","F","a","i","l","e","d"," ","t","o"," ","l","o","a","d"," ","d","o","c","u","m","e","n","t","a","t","i","o","n">>  \* '# Error loading document\nFailed to load documentation'

\* The string the map callback's catch block returns.
BulkPlaceholder(slug) ==
  <<"#"," ","E","r","r","o","r"," ","l","o","a","d","i","n","g"," ">> \o slug \o <<"\n","F","a","i","l","e","d"," ","t","o"," ","l","o","a","d"," ","d","o","c","u","m","e","n","t","a","t","i","o","n"," ","f","o","r"," ">> \o slug  \* '# Error loading ' '\nFailed to load documentation for '

\* A map callback without its try/catch: a failed read rejects its promise.
BulkCallbackUncaught(slug, out) ==
  IF out.kind = "ok" THEN Fulfilled(BulkSegment(slug, out.content))
  ELSE Rejected

\* How the promise of the async map callback settles once its read has: the
\* try block's return, or the catch block's; it never rejects.
BulkCallback(slug, out) ==
  IF out.kind = "ok" THEN Fulfilled(BulkSegment(slug, out.content))
  ELSE Fulfilled(BulkPlaceholder(slug))

\* Results collected as they arrive: each goes to the first free slot.
PromiseAllStoreOnArrival(results, i, settled) ==
  LET free == {j \in DOMAIN results : results[j].state = "pending"}
  IN [results EXCEPT ![Min(free)] = settled]

\* Promise.all keeps each result at the index of its promise.
PromiseAllStore(results, i, settled) == [results EXCEPT ![i] = settled]

\* Promise.all has settled: rejected as soon as one promise is, fulfilled
\* once all are.
PromiseAllRejected(results) == \E i \in DOMAIN results : results[i].state = "rejected"
PromiseAllFulfilled(results) == \A i \in DOMAIN results : results[i].state = "fulfilled"
PromiseAllSettled(results) == PromiseAllRejected(results) \/ PromiseAllFulfilled(results)

\* The outer catch block.
BulkFailed == PlainResponse(500, <<"E","r","r","o","r"," ","g","e","n","e","r","a","t","i","n","g"," ","d","o","c","u","m","e","n","t","a","t","i","o","n">>)  \* 'Error generating documentation'

\* A bulk response with the cache lifetime of the single-document route.
BulkSuccessHourly(results) ==
  TextResponse(Join([i \in DOMAIN results |-> results[i].value], Separator), ApiMaxAge)

BulkSuccess(results) ==
  TextResponse(Join([i \in DOMAIN results |-> results[i].value], Separator), BulkMaxAge)

\* A request arrives: docFiles.map runs every callback up to its
\* `await fs.readFile`, so all reads are issued, in registry order.
BulkReceive ==
  /\ bulkPc = "idle"
  /\ bulkPc' = "loading"
  /\ bulkReads' = [i \in 1..Len(docFiles) |-> ReadAccess(FilePath(docFiles[i]))]
  /\ bulkOutcome' = [i \in 1..Len(docFiles) |-> "none"]
  /\ bulkOrder' = <<>>
  /\ allDocs' = [i \in 1..Len(docFiles) |-> Pending]
  /\ bulkResp' = NoResp
  /\ UNCHANGED <<clientVars, files, apiVars, titleVars, uiVars>>

\* The read of the i-th identifier settles, in any order among the reads.
BulkLoadDone(i) ==
  /\ bulkPc = "loading"
  /\ bulkOutcome[i] = "none"
  /\ \E out \in ReadOutcomes(FilePath(docFiles[i])) :
       /\ bulkOutcome' = [bulkOutcome EXCEPT ![i] = out.kind]
       /\ allDocs' = PromiseAllStore(allDocs, i, BulkCallback(docFiles[i], out))
  /\ bulkOrder' = Append(bulkOrder, i)
  /\ UNCHANGED <<clientVars, files, bulkPc, bulkReads, bulkResp, apiVars, titleVars, uiVars>>

\* Promise.all settles: the joined body, or the outer catch block's 500.
BulkRespond ==
  /\ bulkPc = "loading"
  /\ PromiseAllSettled(allDocs)
  /\ bulkResp' = IF PromiseAllFulfilled(allDocs) THEN BulkSuccess(allDocs)
                 ELSE BulkFailed
  /\ bulkPc' = "done"
  /\ UNCHANGED <<clientVars, files, bulkReads, bulkOutcome, bulkOrder, allDocs, apiVars, titleVars, uiVars>>

\* The response has been sent; the route serves the next request.
BulkFinish ==
  /\ bulkPc = "done"
  /\ bulkPc' = "idle"
  /\ bulkReads' = <<>>
  /\ bulkOutcome' = <<>>
  /\ bulkOrder' = <<>>
  /\ allDocs' = <<>>
  /\ bulkResp' = NoResp
  /\ UNCHANGED <<clientVars, files, apiVars, titleVars, uiVars>>

(***************************************************************************)
(* The title extraction sites, each applied to the same raw text.          *)
(***************************************************************************)
\* PageHeader renders: useMemo computes pageTitle from content.
PageHeaderExtract ==
  /\ "page" \notin extracted
  /\ pageTitle' = PageHeaderTitle(content)
  /\ extracted' = extracted \cup {"page"}
  /\ UNCHANGED <<clientVars, files, content, apiTitle, bulkTitle, apiVars, bulkVars, uiVars>>

\* The single-document route computes the title of its llmText.
ApiExtract ==
  /\ "api" \notin extracted
  /\ apiTitle' = ApiTitle(content)
  /\ extracted' = extracted \cup {"api"}
  /\ UNCHANGED <<clientVars, files, content, pageTitle, bulkTitle, apiVars, bulkVars, uiVars>>

\* The bulk route computes the title of its segment.
BulkExtract ==
  /\ "bulk" \notin extracted
  /\ bulkTitle' = BulkTitle(content)
  /\ extracted' = extracted \cup {"bulk"}
  /\ UNCHANGED <<clientVars, files, content, pageTitle, apiTitle, apiVars, bulkVars, uiVars>>

(***************************************************************************)
(* Specifications.                                                         *)
(***************************************************************************)
\* Every served registry entry has a file, with any of the document texts.
FilesInit == files \in [{FilePath(s) : s \in Range(docFiles)} -> DocTexts]

ApiIdle ==
  /\ apiPc = "idle"
  /\ apiSlug = <<>>
  /\ apiOrigin = <<>>
  /\ apiReads = <<>>
  /\ apiOutcome = "none"
  /\ apiResp = NoResp

BulkIdle ==
  /\ bulkPc = "idle"
  /\ bulkReads = <<>>
  /\ bulkOutcome = <<>>
  /\ bulkOrder = <<>>
  /\ allDocs = <<>>
  /\ bulkResp = NoResp

TitleIdle ==
  /\ extracted = {}
  /\ pageTitle = <<>>
  /\ apiTitle = <<>>
  /\ bulkTitle = <<>>

\* What DocsPage has produced while it still runs.
NoPage == [kind |-> "none", slug |-> <<>>, content |-> <<>>]

NoRender == [done |-> FALSE, nodes |-> <<>>, hide |-> FALSE, out |-> <<>>]

PageIdle ==
  /\ pagePc = "idle"
  /\ pageSlug = <<>>
  /\ pageReads = <<>>
  /\ pageOutcome = "none"
  /\ pageResult = NoPage
  /\ staticParams = [called |-> {}, api |-> <<>>, page |-> <<>>]

RenderIdle ==
  /\ mdNodes = <<>>
  /\ hideFirstH1 = FALSE
  /\ renderPos = 0
  /\ h1Count = 0
  /\ rendered = <<>>
  /\ lastRender = NoRender

ElemIdle ==
  /\ href = <<>>
  /\ className = <<>>
  /\ anchor = <<>>
  /\ codeEl = <<>>

\* useState({}) and useState(false).
NavIdle ==
  /\ sidebarCollapsed = <<>>
  /\ mobileCollapsed = <<>>
  /\ mobileOpen = FALSE

\* The props of a component that is not rendered.
NoProps ==
  [mounted |-> FALSE, content |-> <<>>, pageSlug |-> <<>>, hideFirstH1 |-> FALSE]

\* The locals of a handler that is not running.
NoRequest ==
  [kind |-> "none", pc |-> "idle", slug |-> <<>>, origin |-> <<>>,
   reads |-> <<>>, outcome |-> <<>>, resp |-> NoResp]

\* The registry copies as the three modules hold them.
ModuleRegistry ==
  [api |-> Served(docFilesApi), bulk |-> docFiles, page |-> Served(docFilesPage)]

ClientIdle ==
  /\ registry = ModuleRegistry
  /\ requests = [r \in 1..MaxRequests |-> NoRequest]
  /\ headerProps = NoProps
  /\ rendererProps = NoProps
  /\ calls = <<>>
  /\ codeCopied = FALSE
  /\ codeClicks = 0
  /\ codeWrites = {}
  /\ codeTimers = <<>>
  /\ aiProps = [pageSlug |-> <<>>, pageTitle |-> <<>>]
  /\ aiPc = "idle"
  /\ aiResponse = NoResp
  /\ aiLlmText = <<>>
  /\ aiClipboard = <<>>
  /\ aiCopied = FALSE
  /\ aiTimers = 0
  /\ isDark = FALSE
  /\ rootDark = FALSE
  /\ storedTheme = <<>>
  /\ themeMounted = FALSE

UiIdle ==
  /\ PageIdle
  /\ RenderIdle
  /\ ElemIdle
  /\ NavIdle
  /\ ClientIdle

\* The single-document route serving requests over a fixed docs directory.
Init ==
  /\ FilesInit
  /\ ApiIdle
  /\ BulkIdle
  /\ content = <<>>
  /\ TitleIdle
  /\ UiIdle

Next ==
  \/ \E slug \in RequestSlugs, origin \in Origins : ApiReceive(slug, origin)
  \/ ApiValidate
  \/ ApiReadDone
  \/ ApiFinish

Spec == Init /\ [][Next]_vars

\* The bulk route serving requests over a fixed docs directory.
NextBulk ==
  \/ BulkReceive
  \/ \E i \in 1..Len(docFiles) : BulkLoadDone(i)
  \/ BulkRespond
  \/ BulkFinish

SpecBulk == Init /\ [][NextBulk]_vars

\* The three title extraction sites applied to one raw text.
InitTitle ==
  /\ files = <<>>
  /\ ApiIdle
  /\ BulkIdle
  /\ content \in RawTexts
  /\ TitleIdle
  /\ UiIdle

NextTitle ==
  \/ PageHeaderExtract
  \/ ApiExtract
  \/ BulkExtract

SpecTitle == InitTitle /\ [][NextTitle]_vars

\* The initial states whose docs directory holds one text for every file.
InitOneText ==
  /\ Init
  /\ \A path \in DOMAIN files : files[path] = <<"#"," ","T","i","t","l","e","\n","\n","B","o","d","y"," ","t","e","x","t",".">>  \* '# Title\n\nBody text.'

(***************************************************************************)
(* DocsPage (/docs/[slug]) and the generateStaticParams of both routes.    *)
(***************************************************************************)
\* docFiles.includes(slug)
PageIncludes(slug) == Includes(Served(docFilesPage), slug)

\* notFound(): the not-found page; it carries nothing of the request.
PageNotFound == [kind |-> "notFound", slug |-> <<>>, content |-> <<>>]

\* The page returned: Header and Sidebar for the slug, PageHeader and
\* MarkdownRenderer (hideFirstH1) for the content.
PageRendered(slug, text) == [kind |-> "page", slug |-> slug, content |-> text]

\* A page request arrives; DocsPage runs up to `await params`.
PageReceive(slug) ==
  /\ pagePc = "idle"
  /\ pagePc' = "params"
  /\ pageSlug' = slug
  /\ pageReads' = <<>>
  /\ pageOutcome' = "none"
  /\ pageResult' = NoPage
  /\ UNCHANGED <<clientVars, files, apiVars, bulkVars, titleVars, staticParams,
                 renderVars, elemVars, navVars>>

\* params resolved: the registry check, then notFound() or the read.
PageValidate ==
  /\ pagePc = "params"
  /\ IF ~PageIncludes(pageSlug)
     THEN /\ pageResult' = PageNotFound
          /\ pagePc' = "done"
          /\ UNCHANGED pageReads
     ELSE /\ pageReads' = Append(pageReads, ReadAccess(FilePath(pageSlug)))
          /\ pagePc' = "reading"
          /\ UNCHANGED pageResult
  /\ UNCHANGED <<clientVars, files, apiVars, bulkVars, titleVars, pageSlug, pageOutcome,
                 staticParams, renderVars, elemVars, navVars>>

\* The read settles: the page, or the catch block's notFound().
PageReadDone ==
  /\ pagePc = "reading"
  /\ \E out \in ReadOutcomes(FilePath(pageSlug)) :
       /\ pageOutcome' = out.kind
       /\ pageResult' = IF out.kind = "ok"
                        THEN PageRendered(pageSlug, out.content)
                        ELSE PageNotFound
  /\ pagePc' = "done"
  /\ UNCHANGED <<clientVars, files, apiVars, bulkVars, titleVars, pageSlug, pageReads,
                 staticParams, renderVars, elemVars, navVars>>

\* The page has been sent; the route serves the next request.
PageFinish ==
  /\ pagePc = "done"
  /\ pagePc' = "idle"
  /\ pageSlug' = <<>>
  /\ pageReads' = <<>>
  /\ pageOutcome' = "none"
  /\ pageResult' = NoPage
  /\ UNCHANGED <<clientVars, files, apiVars, bulkVars, titleVars, staticParams,
                 renderVars, elemVars, navVars>>

\* A map that loses the first entry.
SlugParamsFromSecond(list) ==
  [i \in 1..(Len(list) - 1) |-> [slug |-> list[i + 1]]]

\* docFiles.map((slug) => ({ slug }))
SlugParams(list) == [i \in 1..Len(list) |-> [slug |-> list[i]]]

\* The build calls generateStaticParams of api/llm/[slug]/route.ts.
ApiEnumerate ==
  /\ "api" \notin staticParams.called
  /\ staticParams' = [staticParams EXCEPT !.called = @ \cup {"api"},
                                          !.api = SlugParams(Served(docFilesApi))]
  /\ UNCHANGED <<clientVars, files, apiVars, bulkVars, titleVars, pagePc, pageSlug, pageReads,
                 pageOutcome, pageResult, renderVars, elemVars, navVars>>

\* The build calls generateStaticParams of docs/[slug]/page.tsx.
PageEnumerate ==
  /\ "page" \notin staticParams.called
  /\ staticParams' = [staticParams EXCEPT !.called = @ \cup {"page"},
                                          !.page = SlugParams(Served(docFilesPage))]
  /\ UNCHANGED <<clientVars, files, apiVars, bulkVars, titleVars, pagePc, pageSlug, pageReads,
                 pageOutcome, pageResult, renderVars, elemVars, navVars>>

\* The document page serving requests, and the build enumerating the slugs.
NextPage ==
  \/ \E slug \in RequestSlugs : PageReceive(slug)
  \/ PageValidate
  \/ PageReadDone
  \/ PageFinish
  \/ ApiEnumerate
  \/ PageEnumerate

SpecPage == Init /\ [][NextPage]_vars

(***************************************************************************)
(* Reads that never settle.                                                *)
(***************************************************************************)
\* The read of the single-document request will never settle.
ApiReadHangs ==
  /\ apiPc = "reading"
  /\ apiOutcome = "none"
  /\ apiOutcome' = "hung"
  /\ UNCHANGED <<clientVars, files, apiPc, apiSlug, apiOrigin, apiReads, apiResp,
                 bulkVars, titleVars, uiVars>>

\* The read of the i-th identifier of the bulk request will never settle.
BulkLoadHangs(i) ==
  /\ bulkPc = "loading"
  /\ bulkOutcome[i] = "none"
  /\ bulkOutcome' = [bulkOutcome EXCEPT ![i] = "hung"]
  /\ UNCHANGED <<clientVars, files, bulkPc, bulkReads, bulkOrder, allDocs, bulkResp,
                 apiVars, titleVars, uiVars>>

NextHang ==
  \/ \E slug \in RequestSlugs : ApiReceive(slug, <<"h","t","t","p",":","/","/","l","o","c","a","l","h","o","s","t",":","3","0","0","0">>)  \* 'http://localhost:3000'
  \/ ApiValidate
  \/ ApiReadDone
  \/ ApiReadHangs
  \/ ApiFinish
  \/ BulkReceive
  \/ \E i \in 1..Len(docFiles) : BulkLoadDone(i)
  \/ \E i \in 1..Len(docFiles) : BulkLoadHangs(i)
  \/ BulkRespond
  \/ BulkFinish

\* Both export routes over one docs directory, where a read may never settle.
\* The handlers' own steps are taken whenever they can be (the event loop runs
\* every continuation that is ready); requests and hangs are up to the
\* environment.
SpecHang ==
  /\ InitOneText
  /\ [][NextHang]_vars
  /\ WF_vars(ApiValidate)
  /\ WF_vars(ApiReadDone)
  /\ WF_vars(BulkRespond)
  /\ \A i \in 1..NumDocs : WF_vars(BulkLoadDone(i))

(***************************************************************************)
(* MarkdownRenderer: the h1 callback and its counter.                      *)
(***************************************************************************)
MaxNodes == 3

\* The block elements react-markdown finds in the content, by tag.
NodeTags == {"h1", "h2", "p"}
Documents == UNION {[1..n -> NodeTags] : n \in 0..MaxNodes}

\* What a callback returns: the element of its tag, or null.
Null == "null"

\* A counter that survives from the render before.
H1CountKept == h1Count

\* let h1Count = 0
H1CountAtRender == 0

\* A test that takes every level-1 heading for the first.
IsFirstH1Always(count) == count >= 0

\* const isFirstH1 = h1Count === 0
IsFirstH1(count) == count = 0

\* The h1 callback's result.
RenderH1(count, hide) == IF IsFirstH1(count) /\ hide THEN Null ELSE "h1"

\* React calls MarkdownRenderer with its props.
RenderStart(nodes, hide) ==
  /\ renderPos = 0
  /\ mdNodes' = nodes
  /\ hideFirstH1' = hide
  /\ h1Count' = H1CountAtRender
  /\ rendered' = <<>>
  /\ renderPos' = 1
  /\ UNCHANGED <<clientVars, files, apiVars, bulkVars, titleVars, lastRender,
                 pageVars, elemVars, navVars>>

\* The next element in document order is rendered by its callback.
RenderNode ==
  /\ renderPos \in 1..Len(mdNodes)
  /\ IF mdNodes[renderPos] = "h1"
     THEN /\ h1Count' = h1Count + 1
          /\ rendered' = Append(rendered, RenderH1(h1Count, hideFirstH1))
     ELSE /\ rendered' = Append(rendered, mdNodes[renderPos])
          /\ UNCHANGED h1Count
  /\ renderPos' = renderPos + 1
  /\ UNCHANGED <<clientVars, files, apiVars, bulkVars, titleVars, mdNodes, hideFirstH1,
                 lastRender, pageVars, elemVars, navVars>>

\* Every element is rendered; the output is committed.
RenderFinish ==
  /\ renderPos = Len(mdNodes) + 1
  /\ lastRender' = [done |-> TRUE, nodes |-> mdNodes, hide |-> hideFirstH1,
                    out |-> rendered]
  /\ renderPos' = 0
  /\ UNCHANGED <<clientVars, files, apiVars, bulkVars, titleVars, mdNodes, hideFirstH1,
                 h1Count, rendered, pageVars, elemVars, navVars>>

\* The renderer rendering one document after another.
NextRender ==
  \/ \E nodes \in Documents, hide \in BOOLEAN : RenderStart(nodes, hide)
  \/ RenderNode
  \/ RenderFinish

SpecRender == InitOneText /\ [][NextRender]_vars

(***************************************************************************)
(* MarkdownRenderer: the a and code callbacks.                             *)
(***************************************************************************)
\* An optional prop: <<>> for undefined, <<v>> for the string v.
Undefined == <<>>
Some(v) == <<v>>

Hrefs ==
  { Undefined,
    Some(<<"h","t","t","p","s",":","/","/","g","i","t","h","u","b",".","c","o","m","/","c","o","i","n","9","8","/","s","a","r","o","s","-","s","d","k">>),  \* 'https://github.com/coin98/saros-sdk'
    Some(<<"h","t","t","p",":","/","/","l","o","c","a","l","h","o","s","t",":","3","0","0","0">>),  \* 'http://localhost:3000'
    Some(<<".","/","q","u","i","c","k","s","t","a","r","t",".","m","d">>),  \* './quickstart.md'
    Some(<<"#","u","t","i","l","i","t","y","-","f","u","n","c","t","i","o","n","s">>),  \* '#utility-functions'
    Some(<<"/","d","o","c","s","/","s","a","r","o","s","-","d","o","c","s","-","i","n","d","e","x">>),  \* '/docs/saros-docs-index'
    Some(<<"h","t","t","p","s",":","/","/","d","i","s","c","o","r","d",".","g","g","/","s","a","r","o","s">>),  \* 'https://discord.gg/saros'
    Some(<<".","/","a","p","i","-","r","e","f","e","r","e","n","c","e",".","m","d">>),  \* './api-reference.md'
    Some(<<"/","/","c","d","n",".","s","a","r","o","s",".","f","i","n","a","n","c","e","/","l","o","g","o",".","p","n","g">>),  \* '//cdn.saros.finance/logo.png'
    Some(<<>>),
    Some(<<"m","a","i","l","t","o",":","d","e","v","@","s","a","r","o","s",".","f","i","n","a","n","c","e">>),  \* 'mailto:dev@saros.finance'
    Some(<<"H","T","T","P","S",":","/","/","D","O","C","S",".","S","A","R","O","S",".","F","I","N","A","N","C","E">>),  \* 'HTTPS://DOCS.SAROS.FINANCE'
    Some(<<"h","t","t","p","-","a","p","i",".","m","d">>) }  \* 'http-api.md'

ClassNames ==
  { Undefined,
    Some(<<>>),
    Some(<<"l","a","n","g","u","a","g","e","-","t","y","p","e","s","c","r","i","p","t">>),  \* 'language-typescript'
    Some(<<"h","l","j","s"," ","l","a","n","g","u","a","g","e","-","b","a","s","h">>),  \* 'hljs language-bash'
    Some(<<"l","a","n","g","u","a","g","e","-","j","s","o","n">>),  \* 'language-json'
    Some(<<"h","l","j","s">>),
    Some(<<"l","a","n","g","-","j","s">>) }  \* 'lang-js'

\* href?.startsWith('http')
HrefStartsWithHttp(h) == h # Undefined /\ StartsWith(h[1], <<"h","t","t","p">>)

\* The <a> element the callback returns.
AnchorElement(h) ==
  [ href |-> h,
    target |-> IF HrefStartsWithHttp(h) THEN Some(<<"_","b","l","a","n","k">>) ELSE Undefined,
    rel |-> IF HrefStartsWithHttp(h) THEN Some(<<"n","o","o","p","e","n","e","r"," ","n","o","r","e","f","e","r","r","e","r">>) ELSE Undefined,  \* 'noopener noreferrer'
    externalLink |-> HrefStartsWithHttp(h) ]

\* A test that takes every class name for a language annotation.
IsInlineWithoutClass(c) == c = Undefined

\* const isInline = !className?.includes('language-')
IsInline(c) == ~(c # Undefined /\ Contains(c[1], <<"l","a","n","g","u","a","g","e","-">>))  \* 'language-'

\* The <code> element the callback returns.
CodeElement(c) ==
  IF IsInline(c)
  THEN [ inline |-> TRUE,
         className |-> <<"r","e","l","a","t","i","v","e"," ","r","o","u","n","d","e","d"," ","b","g","-","m","u","t","e","d"," ","p","x","-","[","0",".","3","r","e","m","]"," ","p","y","-","[","0",".","2","r","e","m","]"," ","f","o","n","t","-","m","o","n","o"," ","t","e","x","t","-","s","m"," ","f","o","n","t","-","s","e","m","i","b","o","l","d">> ]  \* 'relative rounded bg-muted px-[0.3rem] py-[0.2rem] font-mono text-sm font-semibold'
  ELSE [ inline |-> FALSE, className |-> <<"b","l","o","c","k">> ]

\* react-markdown renders a link through the a callback.
RenderAnchor(h) ==
  /\ href' = h
  /\ anchor' = Some(AnchorElement(h))
  /\ UNCHANGED <<clientVars, files, apiVars, bulkVars, titleVars, className, codeEl,
                 pageVars, renderVars, navVars>>

\* react-markdown renders a code element through the code callback.
RenderCode(c) ==
  /\ className' = c
  /\ codeEl' = Some(CodeElement(c))
  /\ UNCHANGED <<clientVars, files, apiVars, bulkVars, titleVars, href, anchor,
                 pageVars, renderVars, navVars>>

\* The renderer's callbacks called with one link or code element after another.
NextElements ==
  \/ \E h \in Hrefs : RenderAnchor(h)
  \/ \E c \in ClassNames : RenderCode(c)

SpecElements == InitOneText /\ [][NextElements]_vars

(***************************************************************************)
(* Sidebar and MobileNav: the grouped navigation.                          *)
(***************************************************************************)
Item(name, slug) == [name |-> name, slug |-> slug, file |-> slug \o <<".","m","d">>]

SidebarDocItems ==
  << [ title |-> <<"G","e","t","t","i","n","g"," ","S","t","a","r","t","e","d">>,  \* 'Getting Started'
       items |-> << Item(<<"D","o","c","u","m","e","n","t","a","t","i","o","n"," ","H","u","b">>, <<"s","a","r","o","s","-","d","o","c","s","-","i","n","d","e","x">>),  \* 'Documentation Hub' 'saros-docs-index'
                    Item(<<"Q","u","i","c","k"," ","S","t","a","r","t"," ","G","u","i","d","e">>, <<"s","a","r","o","s","-","d","o","c","s","-","q","u","i","c","k","s","t","a","r","t">>),  \* 'Quick Start Guide' 'saros-docs-quickstart'
                    Item(<<"S","D","K"," ","C","o","m","p","a","r","i","s","o","n">>, <<"s","a","r","o","s","-","s","d","k","-","c","o","m","p","a","r","i","s","o","n">>) >> ],  \* 'SDK Comparison' 'saros-sdk-comparison'
     [ title |-> <<"T","u","t","o","r","i","a","l","s">>,  \* 'Tutorials'
       items |-> << Item(<<"T","o","k","e","n"," ","S","w","a","p"," ","T","u","t","o","r","i","a","l">>, <<"s","a","r","o","s","-","t","u","t","o","r","i","a","l","-","s","w","a","p">>),  \* 'Token Swap Tutorial' 'saros-tutorial-swap'
                    Item(<<"L","i","q","u","i","d","i","t","y"," ","T","u","t","o","r","i","a","l">>, <<"s","a","r","o","s","-","t","u","t","o","r","i","a","l","-","l","i","q","u","i","d","i","t","y">>),  \* 'Liquidity Tutorial' 'saros-tutorial-liquidity'
                    Item(<<"F","a","r","m","i","n","g"," ","T","u","t","o","r","i","a","l">>, <<"s","a","r","o","s","-","t","u","t","o","r","i","a","l","-","f","a","r","m","i","n","g">>) >> ],  \* 'Farming Tutorial' 'saros-tutorial-farming'
     [ title |-> <<"R","e","f","e","r","e","n","c","e">>,  \* 'Reference'
       items |-> << Item(<<"A","P","I"," ","R","e","f","e","r","e","n","c","e">>, <<"s","a","r","o","s","-","a","p","i","-","r","e","f","e","r","e","n","c","e">>),  \* 'API Reference' 'saros-api-reference'
                    Item(<<"C","o","d","e"," ","E","x","a","m","p","l","e","s">>, <<"s","a","r","o","s","-","c","o","d","e","-","e","x","a","m","p","l","e","s">>),  \* 'Code Examples' 'saros-code-examples'
                    Item(<<"T","r","o","u","b","l","e","s","h","o","o","t","i","n","g">>, <<"s","a","r","o","s","-","t","r","o","u","b","l","e","s","h","o","o","t","i","n","g">>) >> ],  \* 'Troubleshooting' 'saros-troubleshooting'
     [ title |-> <<"A","n","a","l","y","s","i","s">>,  \* 'Analysis'
       items |-> << Item(<<"S","D","K"," ","A","n","a","l","y","s","i","s">>, <<"s","a","r","o","s","-","s","d","k","-","a","n","a","l","y","s","i","s">>) >> ] >>  \* 'SDK Analysis' 'saros-sdk-analysis'

MobileDocItems ==
  << [ title |-> <<"G","e","t","t","i","n","g"," ","S","t","a","r","t","e","d">>,  \* 'Getting Started'
       items |-> << Item(<<"D","o","c","u","m","e","n","t","a","t","i","o","n"," ","H","u","b">>, <<"s","a","r","o","s","-","d","o","c","s","-","i","n","d","e","x">>),  \* 'Documentation Hub' 'saros-docs-index'
                    Item(<<"Q","u","i","c","k"," ","S","t","a","r","t"," ","G","u","i","d","e">>, <<"s","a","r","o","s","-","d","o","c","s","-","q","u","i","c","k","s","t","a","r","t">>),  \* 'Quick Start Guide' 'saros-docs-quickstart'
                    Item(<<"S","D","K"," ","C","o","m","p","a","r","i","s","o","n">>, <<"s","a","r","o","s","-","s","d","k","-","c","o","m","p","a","r","i","s","o","n">>) >> ],  \* 'SDK Comparison' 'saros-sdk-comparison'
     [ title |-> <<"T","u","t","o","r","i","a","l","s">>,  \* 'Tutorials'
       items |-> << Item(<<"T","o","k","e","n"," ","S","w","a","p"," ","T","u","t","o","r","i","a","l">>, <<"s","a","r","o","s","-","t","u","t","o","r","i","a","l","-","s","w","a","p">>),  \* 'Token Swap Tutorial' 'saros-tutorial-swap'
                    Item(<<"L","i","q","u","i","d","i","t","y"," ","T","u","t","o","r","i","a","l">>, <<"s","a","r","o","s","-","t","u","t","o","r","i","a","l","-","l","i","q","u","i","d","i","t","y">>),  \* 'Liquidity Tutorial' 'saros-tutorial-liquidity'
                    Item(<<"F","a","r","m","i","n","g"," ","T","u","t","o","r","i","a","l">>, <<"s","a","r","o","s","-","t","u","t","o","r","i","a","l","-","f","a","r","m","i","n","g">>) >> ],  \* 'Farming Tutorial' 'saros-tutorial-farming'
     [ title |-> <<"R","e","f","e","r","e","n","c","e">>,  \* 'Reference'
       items |-> << Item(<<"A","P","I"," ","R","e","f","e","r","e","n","c","e">>, <<"s","a","r","o","s","-","a","p","i","-","r","e","f","e","r","e","n","c","e">>),  \* 'API Reference' 'saros-api-reference'
                    Item(<<"C","o","d","e"," ","E","x","a","m","p","l","e","s">>, <<"s","a","r","o","s","-","c","o","d","e","-","e","x","a","m","p","l","e","s">>),  \* 'Code Examples' 'saros-code-examples'
                    Item(<<"T","r","o","u","b","l","e","s","h","o","o","t","i","n","g">>, <<"s","a","r","o","s","-","t","r","o","u","b","l","e","s","h","o","o","t","i","n","g">>) >> ],  \* 'Troubleshooting' 'saros-troubleshooting'
     [ title |-> <<"A","n","a","l","y","s","i","s">>,  \* 'Analysis'
       items |-> << Item(<<"S","D","K"," ","A","n","a","l","y","s","i","s">>, <<"s","a","r","o","s","-","s","d","k","-","a","n","a","l","y","s","i","s">>) >> ] >>  \* 'SDK Analysis' 'saros-sdk-analysis'

SectionTitles(docItems) == {docItems[i].title : i \in 1..Len(docItems)}

\* collapsed[section.title], undefined being falsy
IsCollapsed(collapsed, title) == title \in DOMAIN collapsed /\ collapsed[title]

\* prev => ({ ...prev, [title]: !prev[title] })
Toggled(prev, title) ==
  [t \in DOMAIN prev \cup {title} |->
     IF t = title THEN ~IsCollapsed(prev, title) ELSE prev[t]]

\* The slugs of the links in display order: the items of every section that
\* is not collapsed.
RECURSIVE Shown(_, _)
Shown(docItems, collapsed) ==
  IF Len(docItems) = 0 THEN <<>>
  ELSE LET section == Head(docItems)
           links == IF IsCollapsed(collapsed, section.title) THEN <<>>
                    ELSE [i \in 1..Len(section.items) |-> section.items[i].slug]
       IN links \o Shown(Tail(docItems), collapsed)

\* A section button of the Sidebar is clicked.
SidebarToggleSection(title) ==
  /\ sidebarCollapsed' = Toggled(sidebarCollapsed, title)
  /\ UNCHANGED <<clientVars, files, apiVars, bulkVars, titleVars, mobileCollapsed, mobileOpen,
                 pageVars, renderVars, elemVars>>

\* The Sheet asks to open or to close (trigger, overlay, escape).
MobileOpenChange ==
  /\ mobileOpen' = ~mobileOpen
  /\ UNCHANGED <<clientVars, files, apiVars, bulkVars, titleVars, sidebarCollapsed,
                 mobileCollapsed, pageVars, renderVars, elemVars>>

\* A section button of the open Sheet is clicked.
MobileToggleSection(title) ==
  /\ mobileOpen
  /\ mobileCollapsed' = Toggled(mobileCollapsed, title)
  /\ UNCHANGED <<clientVars, files, apiVars, bulkVars, titleVars, sidebarCollapsed, mobileOpen,
                 pageVars, renderVars, elemVars>>

\* A link of the open Sheet is clicked: setOpen(false).
MobileLinkClick ==
  /\ mobileOpen
  /\ mobileOpen' = FALSE
  /\ UNCHANGED <<clientVars, files, apiVars, bulkVars, titleVars, sidebarCollapsed,
                 mobileCollapsed, pageVars, renderVars, elemVars>>

\* The two navigation components in use.
NextNav ==
  \/ \E title \in SectionTitles(SidebarDocItems) : SidebarToggleSection(title)
  \/ MobileOpenChange
  \/ \E title \in SectionTitles(MobileDocItems) : MobileToggleSection(title)
  \/ MobileLinkClick

SpecNav == InitOneText /\ [][NextNav]_vars

(***************************************************************************)
(* Concurrent invocations: the server runs the handlers of several         *)
(* requests at once, every invocation with locals of its own; the home     *)
(* page (app/page.tsx) is served beside the routes.                        *)
(***************************************************************************)
\* What Home returns, and what becomes of its uncaught read failure.
HomeRendered(text) == PageRendered(<<"s","a","r","o","s","-","d","o","c","s","-","i","n","d","e","x">>, text)  \* 'saros-docs-index'
HomeError == [kind |-> "error", slug |-> <<>>, content |-> <<>>]

\* One set of locals for every invocation.
LocalsShared(r) == requests[1]

\* The locals of invocation r.
Locals(r) == requests[r]

\* Invocations are numbered as they start: a new one takes the lowest free
\* number.
FirstFree(r) ==
  /\ requests[r].pc = "idle"
  /\ \A q \in 1..(r - 1) : requests[q].pc # "idle"

\* The slugs requested while several invocations run: one of the registry,
\* one outside it.
ConcSlugs == {docFilesApi[1], <<"i","n","t","r","o">>}

\* The docFiles copy a handler of this kind consults.
RegistryOf(kind) ==
  IF kind = "api" THEN registry.api
  ELSE IF kind = "bulk" THEN registry.bulk
  ELSE registry.page

\* A request for a document arrives (single-document route or document
\* page); the handler runs up to `await params`.
ConcReceive(r, kind, slug, origin) ==
  /\ FirstFree(r)
  /\ requests' = [requests EXCEPT ![r] =
       [NoRequest EXCEPT !.kind = kind, !.pc = "params", !.slug = slug,
                         !.origin = origin]]
  /\ UNCHANGED <<files, apiVars, bulkVars, titleVars, uiVars, registry,
                 viewVars, codeVars, aiVars, themeVars>>

\* A request for / arrives: Home issues its read at once.
ConcReceiveHome(r) ==
  /\ FirstFree(r)
  /\ requests' = [requests EXCEPT ![r] =
       [NoRequest EXCEPT !.kind = "home", !.pc = "reading",
                         !.slug = <<"s","a","r","o","s","-","d","o","c","s","-","i","n","d","e","x">>,  \* 'saros-docs-index'
                         !.reads = <<ReadAccess(FilePath(<<"s","a","r","o","s","-","d","o","c","s","-","i","n","d","e","x">>))>>,  \* 'saros-docs-index'
                         !.outcome = <<"pending">>]]
  /\ UNCHANGED <<files, apiVars, bulkVars, titleVars, uiVars, registry,
                 viewVars, codeVars, aiVars, themeVars>>

\* A request for /llms-full.txt arrives: every read is issued, in order.
ConcReceiveBulk(r) ==
  /\ FirstFree(r)
  /\ LET list == RegistryOf("bulk")
     IN requests' = [requests EXCEPT ![r] =
          [NoRequest EXCEPT !.kind = "bulk", !.pc = "loading",
                            !.reads = [i \in 1..Len(list) |-> ReadAccess(FilePath(list[i]))],
                            !.outcome = [i \in 1..Len(list) |-> "pending"],
                            !.resp = [i \in 1..Len(list) |-> Pending]]]
  /\ UNCHANGED <<files, apiVars, bulkVars, titleVars, uiVars, registry,
                 viewVars, codeVars, aiVars, themeVars>>

\* params resolved: the registry check of the route or of the page.
ConcValidate(r) ==
  /\ requests[r].pc = "params"
  /\ LET my == Locals(r)
     IN IF ~Includes(RegistryOf(my.kind), my.slug)
        THEN requests' = [requests EXCEPT ![r].pc = "done",
                            ![r].resp = IF my.kind = "api" THEN ApiNotFound
                                        ELSE PageNotFound]
        ELSE requests' = [requests EXCEPT ![r].pc = "reading",
                            ![r].reads = <<ReadAccess(FilePath(my.slug))>>,
                            ![r].outcome = <<"pending">>]
  /\ UNCHANGED <<files, apiVars, bulkVars, titleVars, uiVars, registry,
                 viewVars, codeVars, aiVars, themeVars>>

\* What a handler with one read returns once the read has settled.
ConcResult(my, out) ==
  IF my.kind = "api"
  THEN (IF out.kind = "ok" THEN ApiSuccess(my.slug, my.origin, out.content)
        ELSE ApiReadFailed)
  ELSE IF my.kind = "page"
  THEN (IF out.kind = "ok" THEN PageRendered(my.slug, out.content)
        ELSE PageNotFound)
  ELSE (IF out.kind = "ok" THEN HomeRendered(out.content) ELSE HomeError)

\* The read of a route, page or home invocation settles.
ConcReadDone(r) ==
  /\ requests[r].pc = "reading"
  /\ LET my == Locals(r)
     IN \E out \in ReadOutcomes(FilePath(my.slug)) :
          requests' = [requests EXCEPT ![r].pc = "done",
                                       ![r].outcome = <<out.kind>>,
                                       ![r].resp = ConcResult(my, out)]
  /\ UNCHANGED <<files, apiVars, bulkVars, titleVars, uiVars, registry,
                 viewVars, codeVars, aiVars, themeVars>>

\* The i-th read of a bulk invocation settles.
ConcLoadDone(r, i) ==
  /\ requests[r].pc = "loading"
  /\ i \in DOMAIN requests[r].outcome
  /\ requests[r].outcome[i] = "pending"
  /\ LET my == Locals(r)
         slug == RegistryOf("bulk")[i]
     IN \E out \in ReadOutcomes(FilePath(slug)) :
          requests' = [requests EXCEPT
            ![r].outcome = [my.outcome EXCEPT ![i] = out.kind],
            ![r].resp = PromiseAllStore(my.resp, i, BulkCallback(slug, out))]
  /\ UNCHANGED <<files, apiVars, bulkVars, titleVars, uiVars, registry,
                 viewVars, codeVars, aiVars, themeVars>>

\* Promise.all of a bulk invocation has settled: join and respond.
ConcRespond(r) ==
  /\ requests[r].pc = "loading"
  /\ PromiseAllSettled(requests[r].resp)
  /\ LET my == Locals(r)
     IN requests' = [requests EXCEPT ![r].pc = "done",
                       ![r].resp = IF PromiseAllRejected(my.resp) THEN BulkFailed
                                   ELSE BulkSuccess(my.resp)]
  /\ UNCHANGED <<files, apiVars, bulkVars, titleVars, uiVars, registry,
                 viewVars, codeVars, aiVars, themeVars>>

\* The response is sent and the invocation's locals are gone.
ConcFinish(r) ==
  /\ requests[r].pc = "done"
  /\ requests' = [requests EXCEPT ![r] = NoRequest]
  /\ UNCHANGED <<files, apiVars, bulkVars, titleVars, uiVars, registry,
                 viewVars, codeVars, aiVars, themeVars>>

NextConc ==
  \/ \E r \in 1..MaxRequests, kind \in {"api", "page"}, slug \in ConcSlugs :
       ConcReceive(r, kind, slug, <<"h","t","t","p",":","/","/","l","o","c","a","l","h","o","s","t",":","3","0","0","0">>)  \* 'http://localhost:3000'
  \/ \E r \in 1..MaxRequests : ConcReceiveHome(r)
  \/ \E r \in 1..MaxRequests : ConcReceiveBulk(r)
  \/ \E r \in 1..MaxRequests : ConcValidate(r)
  \/ \E r \in 1..MaxRequests : ConcReadDone(r)
  \/ \E r \in 1..MaxRequests, i \in 1..NumDocs : ConcLoadDone(r, i)
  \/ \E r \in 1..MaxRequests : ConcRespond(r)
  \/ \E r \in 1..MaxRequests : ConcFinish(r)

SpecConc == InitOneText /\ [][NextConc]_vars

(***************************************************************************)
(* The document view: DocsPage hands one content string to PageHeader and  *)
(* to MarkdownRenderer; ReactMarkdown finds the block elements in it.      *)
(* The block structure is CommonMark's for texts made of ATX headings,     *)
(* code fences, blank lines and paragraph lines; the fences are written    *)
(* with tildes, which CommonMark reads as it reads fences of backticks.    *)
(***************************************************************************)
\* The raw texts viewed.
ViewTexts ==
  { <<"#"," ","T","i","t","l","e","\n","\n","B","o","d","y"," ","t","e","x","t",".">>,  \* '# Title\n\nBody text.'
    <<"B","o","d","y"," ","t","e","x","t",".">>,  \* 'Body text.'
    <<"#"," ","T","i","t","l","e","\n","\n","#","#"," ","U","s","a","g","e","\n","\n","#"," ","N","o","t","e","s">>,  \* '# Title\n\n## Usage\n\n# Notes'
    <<"I","n","t","r","o","\n","\n","#"," ","T","i","t","l","e">>,  \* 'Intro\n\n# Title'
    <<"~","~","~","b","a","s","h","\n","#"," ","i","n","s","t","a","l","l","\n","~","~","~","\n","\n","#"," ","T","i","t","l","e">>,  \* '~~~bash\n# install\n~~~\n\n# Title'
    <<"#"," ","T","i","t","l","e","\n","\n","~","~","~","b","a","s","h","\n","#"," ","i","n","s","t","a","l","l","\n","~","~","~">>,  \* '# Title\n\n~~~bash\n# install\n~~~'
    <<"#","T","i","t","l","e","\n","\n","B","o","d","y"," ","t","e","x","t",".">> }  \* '#Title\n\nBody text.'

IsBlank(line) == \A i \in 1..Len(line) : line[i] \in {" ", "\t"}

\* A code fence opens: three tildes, then the info string.
IsOpeningFence(line) == StartsWith(line, <<"~","~","~">>)

\* A code fence closes: tildes only, at least three.
IsClosingFence(line) ==
  /\ Len(line) >= 3
  /\ \A i \in 1..Len(line) : line[i] = "~"

\* The level of an ATX heading line (1 to 6 '#', then a space, a tab or the
\* end of the line); 0 for any other line.
AtxLevel(line) ==
  LET hashes == {n \in 1..Len(line) : \A i \in 1..n : line[i] = "#"}
      n == Cardinality(hashes)
  IN IF n \in 1..6 /\ (Len(line) = n \/ line[n + 1] \in {" ", "\t"})
     THEN n ELSE 0

HeadingTag(level) ==
  IF level = 1 THEN "h1" ELSE IF level = 2 THEN "h2" ELSE "h3"

\* The block elements of the lines from line i on, with the line each
\* begins at.
RECURSIVE BlocksFrom(_, _, _, _)
BlocksFrom(lines, i, inFence, inParagraph) ==
  IF i > Len(lines) THEN <<>>
  ELSE LET line == lines[i]
       IN IF inFence
          THEN BlocksFrom(lines, i + 1, ~IsClosingFence(line), FALSE)
          ELSE IF IsOpeningFence(line)
          THEN <<[tag |-> "pre", line |-> i]>> \o BlocksFrom(lines, i + 1, TRUE, FALSE)
          ELSE IF IsBlank(line)
          THEN BlocksFrom(lines, i + 1, FALSE, FALSE)
          ELSE IF AtxLevel(line) # 0
          THEN <<[tag |-> HeadingTag(AtxLevel(line)), line |-> i]>>
               \o BlocksFrom(lines, i + 1, FALSE, FALSE)
          ELSE IF inParagraph
          THEN BlocksFrom(lines, i + 1, FALSE, TRUE)
          ELSE <<[tag |-> "p", line |-> i]>> \o BlocksFrom(lines, i + 1, FALSE, TRUE)

Blocks(text) == BlocksFrom(Split(text, <<"\n">>), 1, FALSE, FALSE)

\* <PageHeader content={content} pageSlug={slug} />
PageHeaderProps(text, slug) ==
  [mounted |-> TRUE, content |-> text, pageSlug |-> slug, hideFirstH1 |-> FALSE]

\* A renderer handed the text without its first line when the heading is
\* to be hidden.
RendererPropsCut(text, slug, hide) ==
  [mounted |-> TRUE,
   content |-> IF hide /\ Contains(text, <<"\n">>)
               THEN SubSeq(text, IndexOfFrom(text, <<"\n">>, 1) + 1, Len(text))
               ELSE text,
   pageSlug |-> slug, hideFirstH1 |-> hide]

\* <MarkdownRenderer content={content} hideFirstH1={true} /> (the prop is
\* false when it is not given).
RendererProps(text, slug, hide) ==
  [mounted |-> TRUE, content |-> text, pageSlug |-> slug, hideFirstH1 |-> hide]

\* DocsPage returns its element for the content it has read.
ViewMount(text, slug, hide) ==
  /\ renderPos = 0
  /\ content' = text
  /\ headerProps' = PageHeaderProps(text, slug)
  /\ rendererProps' = RendererProps(text, slug, hide)
  /\ extracted' = {}
  /\ pageTitle' = <<>>
  /\ UNCHANGED <<files, apiVars, bulkVars, apiTitle, bulkTitle, uiVars,
                 concVars, calls, codeVars, aiVars, themeVars>>

\* PageHeader renders: useMemo computes pageTitle from its content prop.
ViewPageHeader ==
  /\ headerProps.mounted
  /\ "page" \notin extracted
  /\ pageTitle' = PageHeaderTitle(headerProps.content)
  /\ extracted' = extracted \cup {"page"}
  /\ UNCHANGED <<files, apiVars, bulkVars, content, apiTitle, bulkTitle, uiVars,
                 clientVars>>

\* MarkdownRenderer renders its props: ReactMarkdown parses content.
ViewRenderStart ==
  /\ rendererProps.mounted
  /\ renderPos = 0
  /\ LET blocks == Blocks(rendererProps.content)
     IN mdNodes' = [i \in 1..Len(blocks) |-> blocks[i].tag]
  /\ hideFirstH1' = rendererProps.hideFirstH1
  /\ h1Count' = H1CountAtRender
  /\ rendered' = <<>>
  /\ renderPos' = 1
  /\ UNCHANGED <<files, apiVars, bulkVars, titleVars, lastRender,
                 pageVars, elemVars, navVars, clientVars>>

NextView ==
  \/ \E text \in ViewTexts, hide \in BOOLEAN :
       ViewMount(text, <<"s","a","r","o","s","-","d","o","c","s","-","i","n","d","e","x">>, hide)  \* 'saros-docs-index'
  \/ ViewPageHeader
  \/ ViewRenderStart
  \/ RenderNode
  \/ RenderFinish

SpecView == InitOneText /\ [][NextView]_vars

(***************************************************************************)
(* MarkdownRenderer when the framework calls the callbacks of one render   *)
(* in an order and a number of times of its choosing.                      *)
(***************************************************************************)
MaxCalls == 2

\* MarkdownRenderer is called; no callback has run yet.
RenderStartFree(nodes, hide) ==
  /\ calls = <<>>
  /\ nodes # <<>>
  /\ mdNodes' = nodes
  /\ hideFirstH1' = hide
  /\ h1Count' = H1CountAtRender
  /\ rendered' = [i \in 1..Len(nodes) |-> "pending"]
  /\ calls' = [i \in 1..Len(nodes) |-> 0]
  /\ UNCHANGED <<files, apiVars, bulkVars, titleVars, renderPos, lastRender,
                 pageVars, elemVars, navVars, concVars, headerProps,
                 rendererProps, codeVars, aiVars, themeVars>>

\* The callback of the i-th element runs; its latest result is what shows.
InvokeCallback(i) ==
  /\ i \in DOMAIN calls
  /\ calls[i] < MaxCalls
  /\ calls' = [calls EXCEPT ![i] = @ + 1]
  /\ IF mdNodes[i] = "h1"
     THEN /\ h1Count' = h1Count + 1
          /\ rendered' = [rendered EXCEPT ![i] = RenderH1(h1Count, hideFirstH1)]
     ELSE /\ rendered' = [rendered EXCEPT ![i] = mdNodes[i]]
          /\ UNCHANGED h1Count
  /\ UNCHANGED <<files, apiVars, bulkVars, titleVars, mdNodes, hideFirstH1,
                 renderPos, lastRender, pageVars, elemVars, navVars, concVars,
                 headerProps, rendererProps, codeVars, aiVars, themeVars>>

\* The render is committed: what the callbacks returned last is on screen.
RenderCommit ==
  /\ calls # <<>>
  /\ \A i \in DOMAIN calls : calls[i] >= 1
  /\ calls' = <<>>
  /\ UNCHANGED <<files, apiVars, bulkVars, titleVars, mdNodes, hideFirstH1,
                 renderPos, h1Count, rendered, lastRender, pageVars, elemVars,
                 navVars, concVars, headerProps, rendererProps, codeVars,
                 aiVars, themeVars>>

NextInvoke ==
  \/ \E nodes \in Documents, hide \in BOOLEAN : RenderStartFree(nodes, hide)
  \/ \E i \in 1..MaxNodes : InvokeCallback(i)
  \/ RenderCommit

SpecInvoke == InitOneText /\ [][NextInvoke]_vars

(***************************************************************************)
(* CodeCopyButton: copyToClipboard, its clipboard write and reset timers.  *)
(***************************************************************************)
MaxClicks == 4

\* The button is clicked: copyToClipboard runs up to its await.
CodeClick ==
  /\ codeClicks < MaxClicks
  /\ codeClicks' = codeClicks + 1
  /\ codeWrites' = codeWrites \cup {codeClicks + 1}
  /\ UNCHANGED <<files, apiVars, bulkVars, titleVars, uiVars, concVars, viewVars,
                 codeCopied, codeTimers, aiVars, themeVars>>

\* navigator.clipboard.writeText of click c settles: setCopied(true) and a
\* timer of 2000 ms, or the catch block.
CodeWriteDone(c, ok) ==
  /\ c \in codeWrites
  /\ codeWrites' = codeWrites \ {c}
  /\ IF ok
     THEN /\ codeCopied' = TRUE
          /\ codeTimers' = Append(codeTimers, c)
     ELSE UNCHANGED <<codeCopied, codeTimers>>
  /\ UNCHANGED <<files, apiVars, bulkVars, titleVars, uiVars, concVars, viewVars,
                 codeClicks, aiVars, themeVars>>

\* The oldest pending timer fires (all have the same delay):
\* setCopied(false).
CodeTimerFire ==
  /\ codeTimers # <<>>
  /\ codeCopied' = FALSE
  /\ codeTimers' = Tail(codeTimers)
  /\ UNCHANGED <<files, apiVars, bulkVars, titleVars, uiVars, concVars, viewVars,
                 codeClicks, codeWrites, aiVars, themeVars>>

NextCode ==
  \/ CodeClick
  \/ \E c \in 1..MaxClicks, ok \in BOOLEAN : CodeWriteDone(c, ok)
  \/ CodeTimerFire

SpecCode == InitOneText /\ [][NextCode]_vars

(***************************************************************************)
(* AIPageActions: handleCopyPage, its fetch, clipboard write and timers.   *)
(***************************************************************************)
MaxCopies == 2

\* A test of response.ok that every response passes.
ResponseOkAlways(resp) == TRUE

\* response.ok: the status is in the range 200-299.
ResponseOk(resp) == resp.status \in 200..299

\* The template literal of the else branch.
AiFallbackText(slug, title, origin, locationHref) ==
  <<"#"," ">> \o title \o <<"\n">>
  \o <<"U","R","L",":"," ","/","d","o","c","s","/">> \o slug \o <<"\n">>  \* 'URL: /docs/' '\n'
  \o <<"S","o","u","r","c","e",":"," ">> \o origin \o <<"/","d","o","c","s","/">> \o slug \o <<"\n">>  \* 'Source: ' '/docs/' '\n'
  \o <<"\n">>
  \o title \o <<" ","d","o","c","u","m","e","n","t","a","t","i","o","n"," ","f","r","o","m"," ","S","a","r","o","s"," ","S","D","K"," ","D","o","c","s",".","\n">>  \* ' documentation from Saros SDK Docs.\n'
  \o <<"\n">>
  \o <<"*","*","*","\n">>
  \o <<"\n">>
  \o <<"T","h","i","s"," ","i","s"," ","d","o","c","u","m","e","n","t","a","t","i","o","n"," ","f","o","r"," ","t","h","e"," ","S","a","r","o","s"," ","S","D","K","."," ","F","o","r"," ","t","h","e"," ","m","o","s","t"," ","u","p","-","t","o","-","d","a","t","e"," ","i","n","f","o","r","m","a","t","i","o","n",","," ","v","i","s","i","t",":"," ">>  \* 'This is documentation for the Saros SDK. For the most up-to-date information, visit: '
  \o locationHref

\* window.location of a documentation page.
AiOrigin == <<"h","t","t","p",":","/","/","l","o","c","a","l","h","o","s","t",":","3","0","0","0">>  \* 'http://localhost:3000'
AiHref(slug) == AiOrigin \o <<"/","d","o","c","s","/">> \o slug

\* What GET /api/llm/<slug> can answer.
AiResponses(slug) ==
  IF Includes(Served(docFilesApi), slug)
  THEN {IF out.kind = "ok" THEN ApiSuccess(slug, AiOrigin, out.content)
                            ELSE ApiReadFailed : out \in ReadOutcomes(FilePath(slug))}
  ELSE {ApiNotFound}

\* The pages that mount PageHeader: Home and DocsPage.
AiSlugs == {docFilesPage[1], docFilesPage[2]}

\* "Copy page" is chosen on a page showing text: handleCopyPage runs up to
\* its fetch.  response and llmText are locals of the invocation, so one
\* invocation is followed at a time; copied and the timers are the
\* component's.
AiClick(slug, text) ==
  /\ aiPc = "idle"
  /\ aiTimers < MaxCopies
  /\ aiProps' = [pageSlug |-> slug, pageTitle |-> PageHeaderTitle(text)]
  /\ aiPc' = "fetching"
  /\ aiResponse' = NoResp
  /\ aiLlmText' = <<>>
  /\ aiClipboard' = <<>>
  /\ UNCHANGED <<files, apiVars, bulkVars, titleVars, uiVars, concVars, viewVars,
                 codeVars, aiCopied, aiTimers, themeVars>>

\* fetch resolves with a response.
AiFetchDone ==
  /\ aiPc = "fetching"
  /\ \E resp \in AiResponses(aiProps.pageSlug) :
       /\ aiResponse' = resp
       /\ IF ResponseOk(resp)
          THEN /\ aiPc' = "text"
               /\ UNCHANGED aiLlmText
          ELSE /\ aiPc' = "writing"
               /\ aiLlmText' = AiFallbackText(aiProps.pageSlug, aiProps.pageTitle,
                                              AiOrigin, AiHref(aiProps.pageSlug))
  /\ UNCHANGED <<files, apiVars, bulkVars, titleVars, uiVars, concVars, viewVars,
                 codeVars, aiProps, aiClipboard, aiCopied, aiTimers, themeVars>>

\* response.text() resolves.
AiTextDone ==
  /\ aiPc = "text"
  /\ aiLlmText' = aiResponse.body
  /\ aiPc' = "writing"
  /\ UNCHANGED <<files, apiVars, bulkVars, titleVars, uiVars, concVars, viewVars,
                 codeVars, aiProps, aiResponse, aiClipboard, aiCopied, aiTimers,
                 themeVars>>

\* navigator.clipboard.writeText resolves: setCopied(true) and a timer.
AiWriteDone ==
  /\ aiPc = "writing"
  /\ aiClipboard' = Append(aiClipboard, aiLlmText)
  /\ aiCopied' = TRUE
  /\ aiTimers' = aiTimers + 1
  /\ aiPc' = "idle"
  /\ UNCHANGED <<files, apiVars, bulkVars, titleVars, uiVars, concVars, viewVars,
                 codeVars, aiProps, aiResponse, aiLlmText, themeVars>>

\* The awaited fetch, text() or writeText rejects: the catch block.
AiThrow ==
  /\ aiPc # "idle"
  /\ aiPc' = "idle"
  /\ UNCHANGED <<files, apiVars, bulkVars, titleVars, uiVars, concVars, viewVars,
                 codeVars, aiProps, aiResponse, aiLlmText, aiClipboard, aiCopied,
                 aiTimers, themeVars>>

\* A reset timer fires: setCopied(false).
AiTimerFire ==
  /\ aiTimers > 0
  /\ aiTimers' = aiTimers - 1
  /\ aiCopied' = FALSE
  /\ UNCHANGED <<files, apiVars, bulkVars, titleVars, uiVars, concVars, viewVars,
                 codeVars, aiProps, aiPc, aiResponse, aiLlmText, aiClipboard,
                 themeVars>>

NextAI ==
  \/ \E slug \in AiSlugs, text \in ViewTexts : AiClick(slug, text)
  \/ AiFetchDone
  \/ AiTextDone
  \/ AiWriteDone
  \/ AiThrow
  \/ AiTimerFire

SpecAI == InitOneText /\ [][NextAI]_vars

(***************************************************************************)
(* ThemeToggle (mounted by the Sidebar): the mount effect and toggleTheme. *)
(***************************************************************************)
\* What localStorage can hold under 'theme' when a page is loaded; getItem
\* gives null (Undefined) for a missing key.
SavedThemes == {Undefined, Some(<<"d","a","r","k">>), Some(<<"l","i","g","h","t">>), Some(<<"s","y","s","t","e","m">>)}

\* An updateTheme that leaves localStorage alone.
updateThemeClassOnly(dark) ==
  /\ rootDark' = dark
  /\ UNCHANGED storedTheme

\* updateTheme: classList.add/remove('dark') and setItem('theme', ...).
updateTheme(dark) ==
  /\ rootDark' = dark
  /\ storedTheme' = Some(IF dark THEN <<"d","a","r","k">> ELSE <<"l","i","g","h","t">>)

\* A page is loaded: a new ThemeToggle with useState(false), not yet
\* mounted, in a document and a storage left by earlier visits.
ThemeLoad(saved, dark) ==
  /\ isDark' = FALSE
  /\ themeMounted' = FALSE
  /\ storedTheme' = saved
  /\ rootDark' = dark
  /\ sidebarCollapsed' = <<>>
  /\ UNCHANGED <<files, apiVars, bulkVars, titleVars, pageVars, renderVars,
                 elemVars, mobileCollapsed, mobileOpen, concVars, viewVars,
                 codeVars, aiVars>>

\* The mount effect.
ThemeMount ==
  /\ ~themeMounted
  /\ LET saved == storedTheme
         initialIsDark == saved = Some(<<"d","a","r","k">>)
     IN /\ isDark' = initialIsDark
        /\ updateTheme(initialIsDark)
  /\ themeMounted' = TRUE
  /\ UNCHANGED <<files, apiVars, bulkVars, titleVars, uiVars, concVars, viewVars,
                 codeVars, aiVars>>

\* The toggle button is clicked.
toggleTheme ==
  /\ LET newIsDark == ~isDark
     IN /\ isDark' = newIsDark
        /\ updateTheme(newIsDark)
  /\ UNCHANGED <<files, apiVars, bulkVars, titleVars, uiVars, concVars, viewVars,
                 codeVars, aiVars, themeMounted>>

NextTheme ==
  \/ \E saved \in SavedThemes, dark \in BOOLEAN : ThemeLoad(saved, dark)
  \/ ThemeMount
  \/ toggleTheme
  \/ \E title \in SectionTitles(SidebarDocItems) : SidebarToggleSection(title)

SpecTheme == InitOneText /\ [][NextTheme]_vars

(***************************************************************************)
(* Properties of the single-document and bulk routes.                      *)
(***************************************************************************)
\* The identifiers of the (served) registry, as a set.
RegistryIds == {docFilesApi[i] : i \in 1..NumDocs}

\* The file of the i-th registry entry, as the docs directory holds it.
FileOf(i) == files[FilePath(docFilesBulk[i])]

\* C1: a request for an identifier that is not in the registry issues no
\* storage read at any point, and it ends with status 404 and the body
\* 'Documentation not found'.
C1_UnknownSlugIs404WithoutRead ==
  (apiPc # "idle" /\ apiSlug \notin RegistryIds) =>
    /\ apiReads = <<>>
    /\ apiOutcome = "none"
    /\ apiPc # "reading"
    /\ apiPc = "done" =>
         /\ apiResp.status = 404
         /\ apiResp.body = <<"D","o","c","u","m","e","n","t","a","t","i","o","n"," ","n","o","t"," ","f","o","u","n","d">>  \* 'Documentation not found'

\* C1 witness: the request for 'intro' has been answered.
C1_Witness ==
  /\ apiPc = "done"
  /\ apiSlug = <<"i","n","t","r","o">>
  /\ apiResp.status = 404

\* C2: a request for a registry identifier whose read fails ends with status
\* 500 and the body 'Error reading documentation', which holds no part of
\* the header or of the document; and nothing is sent before the handler ends.
C2_ReadFailureIs500 ==
  /\ (apiPc = "done" /\ apiSlug \in RegistryIds /\ apiOutcome = "error") =>
       /\ apiResp.status = 500
       /\ apiResp.body = <<"E","r","r","o","r"," ","r","e","a","d","i","n","g"," ","d","o","c","u","m","e","n","t","a","t","i","o","n">>  \* 'Error reading documentation'
       /\ ~Contains(apiResp.body, <<"U","R","L",":">>)
       /\ ~Contains(apiResp.body, <<"S","o","u","r","c","e",":">>)  \* 'Source:'
       /\ ~Contains(apiResp.body, <<"#"," ">>)
       /\ ~Contains(apiResp.body, files[FilePath(apiSlug)])
  /\ apiPc \in {"params", "reading"} => apiResp = NoResp

\* C2 witness: a registry identifier's read has failed and was answered.
C2_Witness ==
  /\ apiPc = "done"
  /\ apiSlug \in RegistryIds
  /\ apiOutcome = "error"
  /\ apiResp.status = 500

\* C3: whatever the loads' outcomes, the bulk export ends with status 200
\* and a text/plain body, never with the 500 'Error generating documentation'.
C3_BulkNeverFails ==
  bulkPc = "done" =>
    /\ \A i \in 1..NumDocs : bulkOutcome[i] \in {"ok", "error"}
    /\ bulkResp.status = 200
    /\ bulkResp.contentType = "text/plain"
    /\ bulkResp.body # <<"E","r","r","o","r"," ","g","e","n","e","r","a","t","i","n","g"," ","d","o","c","u","m","e","n","t","a","t","i","o","n">>  \* 'Error generating documentation'

\* C3 witness: the bulk export has answered although every load failed.
C3_Witness ==
  /\ bulkPc = "done"
  /\ \A i \in 1..NumDocs : bulkOutcome[i] = "error"
  /\ bulkResp.status = 200

\* C4: the body of the bulk export, split by the separator, has exactly one
\* segment per registry entry, for every document content.
C4_SplitYieldsOneSegmentPerEntry ==
  bulkPc = "done" =>
    Len(Split(bulkResp.body, Separator)) = NumDocs

\* The registry identifier a segment is about: the one its URL line gives,
\* or the one its 'Error loading' heading gives.
SegmentIsAbout(seg, id) ==
  LET ends == {i \in 1..Len(seg) : seg[i] = "\n"} \cup {Len(seg) + 1}
      end1 == Min(ends)
      end2 == Min((ends \ {end1}) \cup {Len(seg) + 1})
  IN \/ SubSeq(seg, 1, end1 - 1) = <<"#"," ","E","r","r","o","r"," ","l","o","a","d","i","n","g"," ">> \o id  \* '# Error loading '
     \/ SubSeq(seg, end1 + 1, end2 - 1) = <<"U","R","L",":"," ","/","d","o","c","s","/">> \o id  \* 'URL: /docs/'

\* What the i-th segment is, given only the docs directory and how the
\* i-th load ended.
SegmentByOutcome(i) ==
  IF bulkOutcome[i] = "ok"
  THEN <<"#"," ">> \o BulkTitle(FileOf(i)) \o <<"\n","U","R","L",":"," ","/","d","o","c","s","/">> \o docFilesBulk[i]  \* '# ' '\nURL: /docs/'
       \o <<"\n","S","o","u","r","c","e",":"," ","h","t","t","p","s",":","/","/","s","a","r","o","s","-","s","d","k","-","d","o","c","s",".","v","e","r","c","e","l",".","a","p","p","/","d","o","c","s","/">> \o docFilesBulk[i]  \* '\nSource: https://saros-sdk-docs.vercel.app/docs/'
       \o <<"\n","\n">> \o FileOf(i)
  ELSE <<"#"," ","E","r","r","o","r"," ","l","o","a","d","i","n","g"," ">> \o docFilesBulk[i]  \* '# Error loading '
       \o <<"\n","F","a","i","l","e","d"," ","t","o"," ","l","o","a","d"," ","d","o","c","u","m","e","n","t","a","t","i","o","n"," ","f","o","r"," ">> \o docFilesBulk[i]  \* '\nFailed to load documentation for '

\* C5: in whatever order the concurrent loads complete, the i-th result is
\* about the i-th registry identifier, and the body is the join, in registry
\* order, of segments that depend only on the docs directory and on how each
\* load ended (so not on the completion order).
C5_AssemblyFollowsRegistryOrder ==
  /\ bulkPc \in {"loading", "done"} =>
       \A i \in 1..NumDocs :
         /\ allDocs[i].state = "pending" <=> bulkOutcome[i] = "none"
         /\ allDocs[i].state = "fulfilled" =>
              SegmentIsAbout(allDocs[i].value, docFilesBulk[i])
  /\ bulkPc = "done" =>
       bulkResp.body = Join([i \in 1..NumDocs |-> SegmentByOutcome(i)], Separator)

\* C5 witness: the export has answered after the last registry entry's load
\* completed first, as a failure, and the first entry's load completed last.
C5_Witness ==
  /\ bulkPc = "done"
  /\ bulkOrder[1] = NumDocs
  /\ bulkOrder[NumDocs] = 1
  /\ bulkOutcome[NumDocs] = "error"
  /\ bulkOutcome[1] = "ok"

\* C6: a failed load is isolated: its result is the placeholder naming its
\* identifier ('# Error loading <id>', 'Failed to load documentation for
\* <id>') with no document text in it, every other result is what it is when
\* no load fails, and the body is their join in registry order.
C6_FailureIsIsolated ==
  bulkPc = "done" =>
    /\ \A i \in 1..NumDocs :
         /\ bulkOutcome[i] = "error" =>
              /\ StartsWith(allDocs[i].value, <<"#"," ","E","r","r","o","r"," ","l","o","a","d","i","n","g"," ">> \o docFilesBulk[i] \o <<"\n">>)  \* '# Error loading '
              /\ Contains(allDocs[i].value,
                          <<"F","a","i","l","e","d"," ","t","o"," ","l","o","a","d"," ","d","o","c","u","m","e","n","t","a","t","i","o","n"," ","f","o","r"," ">> \o docFilesBulk[i])  \* 'Failed to load documentation for '
              /\ ~Contains(allDocs[i].value, FileOf(i))
              /\ ~Contains(allDocs[i].value, <<"U","R","L",":">>)
         /\ bulkOutcome[i] = "ok" =>
              /\ allDocs[i].value = SegmentByOutcome(i)
              /\ ~Contains(allDocs[i].value, <<"E","r","r","o","r"," ","l","o","a","d","i","n","g">>)  \* 'Error loading'
    /\ bulkResp.body = Join([i \in 1..NumDocs |-> allDocs[i].value], Separator)

\* C6 witness: the export has answered with the second load failed and the
\* first and third succeeded.
C6_Witness ==
  /\ bulkPc = "done"
  /\ bulkOutcome[1] = "ok"
  /\ bulkOutcome[2] = "error"
  /\ bulkOutcome[3] = "ok"

\* C7: the segment of every identifier whose load succeeds is the body the
\* single-document export returns for that identifier and the same origin.
C7_SegmentEqualsSingleExport ==
  bulkPc = "done" =>
    \A i \in 1..NumDocs :
      bulkOutcome[i] = "ok" =>
        \E origin \in Origins :
          allDocs[i].value = ApiLlmText(docFilesBulk[i], origin, FileOf(i))

\* C8: for every raw text, the title of the export (single-document and
\* bulk) is the title the page header shows.
C8_ExportTitleEqualsPageTitle ==
  {"page", "api", "bulk"} \subseteq extracted =>
    /\ apiTitle = pageTitle
    /\ bulkTitle = pageTitle

\* The reference of title extraction: the lines of a text, cut at every
\* line terminator.
RECURSIVE LinesOf(_)
LinesOf(s) ==
  LET cuts == {i \in 1..Len(s) : s[i] \in LineTerminators}
  IN IF cuts = {} THEN <<s>>
     ELSE <<SubSeq(s, 1, Min(cuts) - 1)>> \o LinesOf(SubSeq(s, Min(cuts) + 1, Len(s)))

Whitespace == {" ", "\t", "\n", "\r"}

\* String.prototype.trim
RECURSIVE Trim(_)
Trim(s) ==
  IF Len(s) = 0 THEN s
  ELSE IF s[1] \in Whitespace THEN Trim(Tail(s))
  ELSE IF s[Len(s)] \in Whitespace THEN Trim(SubSeq(s, 1, Len(s) - 1))
  ELSE s

\* A level-1 heading line: the marker '# ' followed by some text.
IsH1Line(line) == Len(line) >= 3 /\ line[1] = "#" /\ line[2] = " "

\* The trimmed text of the first level-1 heading, or the default title.
ReferenceTitle(s) ==
  LET lines == LinesOf(s)
      h1s == {k \in 1..Len(lines) : IsH1Line(lines[k])}
  IN IF h1s = {} THEN <<"D","o","c","u","m","e","n","t","a","t","i","o","n">>  \* 'Documentation'
     ELSE LET line == lines[Min(h1s)] IN Trim(SubSeq(line, 3, Len(line)))

\* C9: title extraction returns 'Documentation' for a raw text without a
\* level-1 heading line, and otherwise the trimmed text of the first one.
C9_TitleIsTrimmedFirstHeading ==
  "page" \in extracted => pageTitle = ReferenceTitle(content)

\* The markers of a horizontal rule.
HorizontalRules == {<<"*","*","*">>, <<"-","-","-">>, <<"_","_","_">>}

\* The lines of the answer to the request being served, and its document.
ApiLines == Split(apiResp.body, <<"\n">>)
ApiText == files[FilePath(apiSlug)]

\* What the first five lines of a successful answer are.
ApiHeadLines ==
  /\ apiResp.status = 200
  /\ apiResp.contentType = "text/plain"
  /\ Len(ApiLines) >= 8
  /\ ApiLines[1] = <<"#"," ">> \o ApiTitle(ApiText)
  /\ ApiLines[2] = <<"U","R","L",":"," ","/","d","o","c","s","/">> \o apiSlug  \* 'URL: /docs/'
  /\ ApiLines[3] = <<"S","o","u","r","c","e",":"," ">> \o apiOrigin \o <<"/","d","o","c","s","/">> \o apiSlug  \* 'Source: ' '/docs/'
  /\ ApiLines[4] = <<>>
  /\ ApiLines[5] = ApiTitle(ApiText) \o <<" ","d","o","c","u","m","e","n","t","a","t","i","o","n"," ","f","r","o","m"," ","S","a","r","o","s"," ","S","D","K"," ","D","o","c","s",".">>  \* ' documentation from Saros SDK Docs.'

\* C10 as stated: title line, URL line, Source line, blank line, description,
\* horizontal-rule line, blank line, then the raw text, and no other line.
C10_ShapeAsStated ==
  (apiPc = "done" /\ apiOutcome = "ok") =>
    /\ ApiHeadLines
    /\ ApiLines[6] \in HorizontalRules
    /\ ApiLines[7] = <<>>
    /\ Join(SubSeq(ApiLines, 8, Len(ApiLines)), <<"\n">>) = ApiText

\* C10, amended: title line, URL line, Source line, blank line, description,
\* a line of eight spaces, the line '***', a blank line, then the raw text.
C10_Shape ==
  (apiPc = "done" /\ apiOutcome = "ok") =>
    /\ apiSlug \in RegistryIds
    /\ ApiHeadLines
    /\ Len(ApiLines) >= 9
    /\ ApiLines[6] = <<" "," "," "," "," "," "," "," ">>  \* '        '
    /\ ApiLines[7] = <<"*","*","*">>
    /\ ApiLines[8] = <<>>
    /\ Join(SubSeq(ApiLines, 9, Len(ApiLines)), <<"\n">>) = ApiText

\* C10 witness: a registry identifier's read succeeded and was answered.
C10_Witness ==
  /\ apiPc = "done"
  /\ apiOutcome = "ok"
  /\ apiSlug \in RegistryIds
  /\ apiResp.status = 200

(***************************************************************************)
(* Properties of the exports' text, of hung reads, of the document page    *)
(* and of the registry's copies.                                           *)
(***************************************************************************)
\* Where the marker line and the blank line after it end in the body.
MarkerEnd(body) ==
  LET at == IndexOfFrom(body, <<"\n","*","*","*","\n","\n">>, 1)  \* '\n***\n\n'
  IN IF at = 0 THEN 0 ELSE at + 5

\* C11: the body of a successful single-document export ends with the
\* document's text exactly as stored, and what follows the '***' line and
\* the blank line after it is that text, nothing more and nothing less.
C11_ExportPreservesRawText ==
  (apiPc = "done" /\ apiOutcome = "ok") =>
    LET body == apiResp.body
        n == Len(ApiText)
    IN /\ Len(body) >= n
       /\ SubSeq(body, Len(body) - n + 1, Len(body)) = ApiText
       /\ MarkerEnd(body) # 0
       /\ SubSeq(body, MarkerEnd(body) + 1, Len(body)) = ApiText

C11_Witness ==
  /\ apiPc = "done"
  /\ apiOutcome = "ok"
  /\ Contains(ApiText, <<"-","-","-">>)
  /\ Contains(apiResp.body, ApiText)

\* C12: every export request is eventually answered, also when a read
\* never settles: the single-document request and the bulk request each
\* reach their response.
C12_EveryRequestIsAnswered ==
  /\ (apiPc = "params") ~> (apiPc = "done")
  /\ (bulkPc = "loading") ~> (bulkPc = "done")

\* C13: on the document page, a registry identifier whose read fails never
\* ends as an identifier outside the registry ends (the not-found page).
C13_PageKeepsFailureKindsApart ==
  (pagePc = "done" /\ PageIncludes(pageSlug) /\ pageOutcome = "error") =>
    pageResult # PageNotFound

\* The identifiers that have a segment in the bulk export.
BulkIds == {docFiles[i] : i \in 1..Len(docFiles)}

\* The identifiers a generateStaticParams result enumerates.
Enumerated(params) == {params[i].slug : i \in 1..Len(params)}

Unique(list) == \A i, j \in 1..Len(list) : list[i] = list[j] => i = j

\* C19: the three copies of the registry are one sequence without
\* repetition, and whatever identifier the document page is asked for, the
\* page accepts it exactly when the single-document route accepts it, when
\* the bulk export has a segment for it, and when the pre-render enumeration
\* (once made) lists it.
C19_OneRegistry ==
  /\ docFilesApi = docFilesBulk
  /\ docFilesBulk = docFilesPage
  /\ Unique(docFilesApi)
  /\ pagePc \in {"reading", "done"} =>
       LET accepted == pagePc = "reading" \/ pageOutcome # "none"
       IN /\ accepted <=> ApiIncludes(pageSlug)
          /\ accepted <=> pageSlug \in BulkIds
          /\ "api" \in staticParams.called =>
               (accepted <=> pageSlug \in Enumerated(staticParams.api))
          /\ "page" \in staticParams.called =>
               (accepted <=> pageSlug \in Enumerated(staticParams.page))

C19_Witness ==
  /\ pagePc = "done"
  /\ pageResult.kind = "page"
  /\ pageSlug = <<"s","a","r","o","s","-","d","o","c","s","-","q","u","i","c","k","s","t","a","r","t">>  \* 'saros-docs-quickstart'
  /\ staticParams.called = {"api", "page"}

\* C20: each generateStaticParams returns, for the registry of its module,
\* one entry per identifier in the registry's order, each entry being the
\* object with the single field slug.
C20_EnumerationIsPassThrough ==
  /\ "api" \in staticParams.called =>
       /\ Len(staticParams.api) = Len(Served(docFilesApi))
       /\ \A i \in 1..Len(staticParams.api) :
            /\ DOMAIN staticParams.api[i] = {"slug"}
            /\ staticParams.api[i].slug = docFilesApi[i]
  /\ "page" \in staticParams.called =>
       /\ Len(staticParams.page) = Len(Served(docFilesPage))
       /\ \A i \in 1..Len(staticParams.page) :
            /\ DOMAIN staticParams.page[i] = {"slug"}
            /\ staticParams.page[i].slug = docFilesPage[i]

C20_Witness ==
  /\ staticParams.called = {"api", "page"}
  /\ Len(staticParams.api) = NumDocs
  /\ Len(staticParams.page) = NumDocs

(***************************************************************************)
(* Properties of the renderer and of the navigation.                       *)
(***************************************************************************)
\* The positions of the level-1 headings among the first n elements.
H1Positions(nodes, n) == {i \in 1..n : nodes[i] = "h1"}

\* C14: of the elements rendered so far, the one hidden is the first level-1
\* heading in document order when hideFirstH1 is set, and none otherwise;
\* every other element is rendered as its own tag, so n level-1 headings
\* leave n-1 visible with the flag and n without it.
C14_OnlyFirstH1IsHidden ==
  renderPos # 0 =>
    LET n == Len(rendered)
        h1s == H1Positions(mdNodes, n)
        hidden == {i \in 1..n : rendered[i] = Null}
        visibleH1 == {i \in 1..n : rendered[i] = "h1"}
    IN /\ n = renderPos - 1
       /\ \A i \in 1..n : rendered[i] \in {Null, mdNodes[i]}
       /\ hidden = IF hideFirstH1 /\ h1s # {} THEN {Min(h1s)} ELSE {}
       /\ visibleH1 = h1s \ hidden
       /\ Cardinality(visibleH1) =
            IF hideFirstH1 /\ h1s # {} THEN Cardinality(h1s) - 1
            ELSE Cardinality(h1s)

C14_Witness ==
  /\ renderPos = Len(mdNodes) + 1
  /\ hideFirstH1
  /\ Cardinality(H1Positions(mdNodes, Len(mdNodes))) = 2
  /\ Cardinality({i \in 1..Len(rendered) : rendered[i] = "h1"}) = 1
  /\ Null \in Range(rendered)

\* C15: a render of the document and flag of the render before it gives the
\* output of the render before it.
C15_RenderIsIdempotent ==
  ( /\ renderPos = Len(mdNodes) + 1
    /\ lastRender.done
    /\ lastRender.nodes = mdNodes
    /\ lastRender.hide = hideFirstH1 ) =>
    rendered = lastRender.out

C15_Witness ==
  /\ renderPos = Len(mdNodes) + 1
  /\ lastRender.done
  /\ lastRender.nodes = mdNodes
  /\ lastRender.hide = hideFirstH1
  /\ hideFirstH1
  /\ H1Positions(mdNodes, Len(mdNodes)) # {}
  /\ Null \in Range(rendered)

Alpha ==
  { "a", "b", "c", "d", "e", "f", "g", "h", "i", "j", "k", "l", "m",
    "n", "o", "p", "q", "r", "s", "t", "u", "v", "w", "x", "y", "z",
    "A", "B", "C", "D", "E", "F", "G", "H", "I", "J", "K", "L", "M",
    "N", "O", "P", "Q", "R", "S", "T", "U", "V", "W", "X", "Y", "Z" }
Digit == {"0", "1", "2", "3", "4", "5", "6", "7", "8", "9"}

\* An absolute URL: a scheme (a letter, then letters, digits, '+', '-',
\* '.') and a colon, as RFC 3986 writes it.
IsAbsoluteUrl(h) ==
  /\ h # Undefined
  /\ LET colon == IndexOfFrom(h[1], <<":">>, 1)
     IN /\ colon > 1
        /\ h[1][1] \in Alpha
        /\ \A i \in 2..(colon - 1) : h[1][i] \in Alpha \cup Digit \cup {"+", "-", "."}

\* C16: a rendered link has target _blank, rel noopener noreferrer and the
\* external-link icon exactly when its target is an absolute URL.
C16_ExternalIffAbsoluteUrl ==
  anchor # Undefined =>
    LET a == anchor[1]
    IN /\ a.externalLink <=> IsAbsoluteUrl(href)
       /\ (a.target = Some(<<"_","b","l","a","n","k">>)) <=> IsAbsoluteUrl(href)
       /\ (a.rel = Some(<<"n","o","o","p","e","n","e","r"," ","n","o","r","e","f","e","r","r","e","r">>)) <=> IsAbsoluteUrl(href)  \* 'noopener noreferrer'

\* A class attribute that holds a class with 'language-' in it.
HasLanguageClass(c) ==
  /\ c # Undefined
  /\ \E k \in Range(Split(c[1], <<" ">>)) : Contains(k, <<"l","a","n","g","u","a","g","e","-">>)  \* 'language-'

\* C17: a rendered code element is inline exactly when its class attribute
\* holds no language annotation, and block-level (class 'block') exactly
\* when it holds one.
C17_InlineIffNoLanguage ==
  codeEl # Undefined =>
    LET el == codeEl[1]
    IN /\ el.inline <=> ~HasLanguageClass(className)
       /\ (el.className = <<"b","l","o","c","k">>) <=> HasLanguageClass(className)
       /\ el.inline <=> (el.className # <<"b","l","o","c","k">>)

C17_Witness ==
  /\ codeEl # Undefined
  /\ className = Some(<<"h","l","j","s">>)
  /\ codeEl[1].inline

\* C18: with every section expanded, the links of the Sidebar and of the
\* open MobileNav are the registry's identifiers in the registry's order.
C18_NavigationFollowsRegistry ==
  /\ (\A t \in SectionTitles(SidebarDocItems) : ~IsCollapsed(sidebarCollapsed, t)) =>
       Shown(SidebarDocItems, sidebarCollapsed) = docFilesBulk
  /\ (mobileOpen /\ \A t \in SectionTitles(MobileDocItems) : ~IsCollapsed(mobileCollapsed, t)) =>
       Shown(MobileDocItems, mobileCollapsed) = docFilesBulk

(***************************************************************************)
(* Properties of concurrent invocations and of storage access.             *)
(***************************************************************************)
\* How the k-th read of an invocation settled, as a read outcome.
OutcomeOf(my, k) ==
  IF my.outcome[k] = "ok" THEN ReadOk(files[my.reads[k].path]) ELSE ReadError

\* The response of the same request served alone over the same docs
\* directory, its reads settling as they did.
Alone(my) ==
  IF my.kind = "api"
  THEN (IF ~ApiIncludes(my.slug) THEN ApiNotFound
        ELSE IF OutcomeOf(my, 1).kind = "ok"
        THEN ApiSuccess(my.slug, my.origin, OutcomeOf(my, 1).content)
        ELSE ApiReadFailed)
  ELSE IF my.kind = "page"
  THEN (IF ~PageIncludes(my.slug) THEN PageNotFound
        ELSE IF OutcomeOf(my, 1).kind = "ok"
        THEN PageRendered(my.slug, OutcomeOf(my, 1).content)
        ELSE PageNotFound)
  ELSE IF my.kind = "home"
  THEN (IF OutcomeOf(my, 1).kind = "ok"
        THEN HomeRendered(OutcomeOf(my, 1).content) ELSE HomeError)
  ELSE BulkSuccess([i \in 1..Len(docFiles) |->
                      BulkCallback(docFiles[i], OutcomeOf(my, i))])

\* C21: whatever the other invocations do meanwhile, the response of an
\* invocation is the response of its request served alone, and the registry
\* copies are what they were at start.
C21_RequestsDoNotInterfere ==
  /\ registry = ModuleRegistry
  /\ \A r \in 1..MaxRequests :
       requests[r].pc = "done" => requests[r].resp = Alone(requests[r])

C21_Witness ==
  /\ requests[1].pc = "done"
  /\ requests[1].kind = "api"
  /\ requests[1].outcome = <<"ok">>
  /\ requests[2].pc = "done"
  /\ requests[2].kind = "bulk"
  /\ "error" \in Range(requests[2].outcome)

\* The storage accesses of every invocation in progress.
AllReads == UNION {Range(requests[r].reads) : r \in 1..MaxRequests}

\* C25: every storage access is a readFile of 'src/docs/<id>.md' for an
\* identifier of the registry, an invocation for a slug outside the
\* registry has made no access, and no step changes the docs directory.
C25_ReadsOnlyRegistryFiles ==
  /\ [](/\ \A a \in AllReads :
             /\ a.op = "readFile"
             /\ \E id \in RegistryIds : a.path = <<"s","r","c","/","d","o","c","s","/">> \o id \o <<".","m","d">>  \* 'src/docs/' '.md'
        /\ \A r \in 1..MaxRequests :
             (requests[r].kind \in {"api", "page"} /\ requests[r].slug \notin RegistryIds)
               => requests[r].reads = <<>>)
  /\ [][files' = files]_vars

C25_Witness ==
  /\ requests[1].pc = "done"
  /\ requests[1].kind = "page"
  /\ requests[1].slug = <<"i","n","t","r","o">>
  /\ requests[1].reads = <<>>
  /\ requests[2].kind = "home"
  /\ requests[2].reads # <<>>

\* C23: a successful bulk response is cacheable by anyone for 86400 seconds,
\* a successful single-document response for 3600 seconds, and the former
\* is strictly the longer.
C23_BulkIsCachedLonger ==
  /\ (apiPc = "done" /\ apiResp.status = 200) =>
       apiResp.cacheControl = [visibility |-> "public", maxAge |-> 3600]
  /\ (bulkPc = "done" /\ bulkResp.status = 200) =>
       bulkResp.cacheControl = [visibility |-> "public", maxAge |-> 86400]
  /\ (apiPc = "done" /\ apiResp.status = 200 /\ bulkPc = "done" /\ bulkResp.status = 200) =>
       bulkResp.cacheControl.maxAge > apiResp.cacheControl.maxAge

C23_Witness ==
  /\ apiPc = "done"
  /\ apiResp.status = 200
  /\ bulkPc = "done"
  /\ bulkResp.status = 200

(***************************************************************************)
(* Properties of the document view.                                        *)
(***************************************************************************)
\* C22: the text PageHeader and MarkdownRenderer work on is the text the
\* page read, whatever hideFirstH1 is and however far the render has come;
\* the title is the title of that text; and no step of a render changes the
\* text or the title.
C22_RenderingKeepsRawText ==
  /\ [](headerProps.mounted =>
          /\ headerProps.content = content
          /\ rendererProps.content = content
          /\ "page" \in extracted => pageTitle = PageHeaderTitle(content))
  /\ [][renderPos # 0 =>
          /\ content' = content
          /\ rendererProps' = rendererProps
          /\ "page" \in extracted => pageTitle' = pageTitle]_vars

C22_Witness ==
  /\ renderPos = Len(mdNodes) + 1
  /\ rendererProps.mounted
  /\ rendererProps.hideFirstH1
  /\ Null \in Range(rendered)
  /\ "page" \in extracted
  /\ pageTitle = <<"T","i","t","l","e">>
  /\ H1Match(content).found

\* The line of the text at which /^# (.+)$/m first matches; 0 if nowhere.
TitleLine(text) ==
  LET starts == {i \in 1..Len(text) : H1MatchesAt(text, i)}
  IN IF starts = {} THEN 0
     ELSE 1 + Cardinality({j \in 1..(Min(starts) - 1) : text[j] = "\n"})

\* C26: on a rendered document page, the heading the renderer has hidden
\* begins at the line where the title pattern first matches, and nothing is
\* hidden when the pattern matches nowhere.
C26_HiddenHeadingIsTheTitle ==
  ( /\ rendererProps.mounted
    /\ rendererProps.hideFirstH1
    /\ renderPos = Len(mdNodes) + 1 ) =>
    LET blocks == Blocks(content)
        hidden == {i \in 1..Len(rendered) : rendered[i] = Null}
    IN IF TitleLine(content) = 0 THEN hidden = {}
       ELSE /\ hidden # {}
            /\ \A i \in hidden : blocks[i].line = TitleLine(content)

\* C27: once every callback of a render with hideFirstH1 has run at least
\* once, in whatever order and however often, the element hidden is the
\* first level-1 heading in document order and no other.
C27_HiddenHeadingIgnoresCallOrder ==
  ( /\ calls # <<>>
    /\ hideFirstH1
    /\ \A i \in DOMAIN calls : calls[i] >= 1 ) =>
    LET h1s == H1Positions(mdNodes, Len(mdNodes))
    IN \A i \in DOMAIN rendered :
         (rendered[i] = Null) <=> (h1s # {} /\ i = Min(h1s))

(***************************************************************************)
(* Properties of the client components.                                    *)
(***************************************************************************)
\* C28: while the reset timer of a click whose write succeeded is pending,
\* the copied indicator of CodeCopyButton is true; and without a pending
\* timer or write the indicator is false.
C28_CopiedLastsUntilOwnTimer ==
  /\ \A c \in Range(codeTimers) : codeCopied
  /\ (codeTimers = <<>> /\ codeWrites = {}) => ~codeCopied

\* C29: an invocation of handleCopyPage writes the clipboard at most once:
\* the body of the response when it is OK, the fallback text otherwise and
\* never the body of an error response; copied becomes true only in the
\* step of a write that succeeded, and a rejected fetch or write leaves it
\* as it was.
C29_CopyPageWritesOnce ==
  /\ [](/\ Len(aiClipboard) <= 1
        /\ aiClipboard # <<>> =>
             /\ aiClipboard[1] =
                  IF aiResponse.status \in 200..299
                  THEN aiResponse.body
                  ELSE AiFallbackText(aiProps.pageSlug, aiProps.pageTitle,
                                      AiOrigin, AiHref(aiProps.pageSlug))
             /\ aiClipboard[1] \notin {ApiNotFound.body, ApiReadFailed.body})
  /\ [][/\ (aiCopied' /\ ~aiCopied) => aiClipboard' = Append(aiClipboard, aiLlmText)
        /\ (aiPc # "idle" /\ aiPc' = "idle" /\ aiClipboard' = aiClipboard)
              => aiCopied' = aiCopied]_vars

C29_Witness ==
  /\ aiPc = "idle"
  /\ aiResponse = ApiReadFailed
  /\ aiClipboard = <<AiFallbackText(aiProps.pageSlug, aiProps.pageTitle,
                                    AiOrigin, AiHref(aiProps.pageSlug))>>
  /\ aiCopied

\* C30: once the mount effect of ThemeToggle has run, and after any number
\* of toggles, isDark, the 'dark' class of the root element and the stored
\* theme agree ('dark' when dark, 'light' otherwise); a toggle flips all
\* three, so that two toggles restore them.
C30_ThemeStaysInStep ==
  /\ [](themeMounted =>
          /\ isDark <=> rootDark
          /\ storedTheme = Some(IF isDark THEN <<"d","a","r","k">> ELSE <<"l","i","g","h","t">>))
  /\ [][(themeMounted /\ themeMounted' /\ isDark' # isDark) =>
          /\ rootDark' = ~rootDark
          /\ storedTheme' # storedTheme
          /\ storedTheme' \in {Some(<<"d","a","r","k">>), Some(<<"l","i","g","h","t">>)}]_vars

C30_Witness ==
  /\ themeMounted
  /\ isDark
  /\ rootDark
  /\ storedTheme = Some(<<"d","a","r","k">>)
====
